---- MODULE Spec2Model ----
(***************************************************************************)
(* A model of the risk-gated signal engine of the stock-trading agent:     *)
(*   - RiskManager           src/src/execution/risk_manager.py             *)
(*   - MomentumStrategy      src/src/strategies/momentum.py                *)
(*   - OptionsStrategy       src/src/strategies/options_strategy.py        *)
(*   - TradingBot            src/scripts/paper_trading.py                  *)
(*                                                                         *)
(* Money is in whole dollars and ratios are compared exactly: for integer  *)
(* operands of at most seven digits the binary64 quotient a / b compares   *)
(* with a binary64 threshold t the way the exact ratio does, except where  *)
(* t itself is a rounded product (see Threshold below).                    *)
(* Fractions of the configuration are written in per cent.                 *)
(***************************************************************************)
EXTENDS Integers, Sequences, FiniteSets, TLC

VARIABLES
    rm,          \* the RiskManager instance: its five RiskState fields
    today,       \* datetime.now().date(), as a day number
    ret,         \* the last RiskManager call: operation, arguments, state before, result
    tripped_on,  \* history: the day check_daily_loss_limit last latched the breaker
    scan,        \* MomentumStrategy: the market data of an analysis and its result
    opt,         \* OptionsStrategy: a generate_options_signals call and its result
    bot,         \* TradingBot and Portfolio: position in start(), the cycle under way
    broker       \* the broker's side: positions held, orders not yet filled

vars == <<rm, today, ret, tripped_on, scan, opt, bot, broker>>

\* The components a specification leaves idle.
Idle == [pc |-> "idle"]

\* Python's None for the Optional fields, which otherwise hold amounts >= 0.
None == -1

\* max(a, b), min(a, b)
Max(a, b) == IF a >= b THEN a ELSE b

Min(a, b) == IF a <= b THEN a ELSE b

(***************************************************************************)
(* config/trading_rules.py                                                 *)
(***************************************************************************)
MAX_POSITION_SIZE_STOCK == 10       \* 0.10
MAX_POSITION_SIZE_OPTION == 5       \* 0.05
MIN_POSITION_SIZE == 1000
MAX_TOTAL_POSITIONS == 15
MAX_STOCK_POSITIONS == 8
MAX_OPTIONS_POSITIONS == 12
MAX_DRAWDOWN == 40                  \* 0.40
DAILY_LOSS_LIMIT == 3               \* 0.03
MAX_SECTOR_EXPOSURE == 30           \* 0.30

(***************************************************************************)
(* Bounds of the model                                                     *)
(***************************************************************************)
\* Calendar days the clock runs through.
MaxDay == 2

Days == 1..MaxDay

\* Equities (portfolio_value) the callers pass, chosen to hit the limits
\* exactly, just inside and just outside.
\* Daily loss against a day that started at 100000:
\*   97000 is 3 % down (the limit itself), 96500 is 3.5 % down.
DayEquities == {0, 96500, 97000, 100000}

\* Drawdown from a peak of 100000 or 120000:
\*   100000 -> 70000 is 30 % (0.75 of the limit), 100000 -> 65000 is 35 %,
\*   120000 -> 72000 is 40 % (the limit itself), 120000 -> 71000 is 40.8 %.
PeakEquities == {0, 65000, 70000, 71000, 72000, 100000, 120000}

\* The portfolio_value of the account_info passed to validate_trade and
\* get_risk_metrics.
AccountEquities == {0, 71000, 100000}

(***************************************************************************)
(* binary64 thresholds.  A threshold is the fraction num/den its           *)
(* expression denotes, and whether the binary64 value of the expression    *)
(* lies above the binary64 nearest to that fraction.  A literal such as    *)
(* 0.03 is the nearest binary64, and so are 0.40 * 0.50 = 0.2 and          *)
(* 0.03 * 0.75 = 0.0225; the product 0.40 * 0.75 is 0.30000000000000004,   *)
(* one unit in the last place above the binary64 nearest to 0.30.          *)
(***************************************************************************)
Threshold(num, den, above) == [num |-> num, den |-> den, above |-> above]

\* A configured fraction, written in per cent.
Pct(p) == Threshold(p, 100, FALSE)

\* a / b >= t, for b > 0.  The quotient of two small integers is the
\* binary64 nearest to the exact ratio, so it reaches a threshold lying
\* above num/den only if the exact ratio exceeds num/den.
RatioGE(a, b, t) ==
    IF t.above THEN a * t.den > t.num * b ELSE a * t.den >= t.num * b

\* a / b > t, for b > 0.
RatioGT(a, b, t) == a * t.den > t.num * b

\* trading_rules.MAX_DRAWDOWN * 0.75, as check_max_drawdown and
\* _get_risk_status compute it.
DRAWDOWN_WARNING == Threshold(MAX_DRAWDOWN * 75, 10000, TRUE)

(***************************************************************************)
(* Results.  A gate ends in "allow" (True, ""), in "reject" (False, reason) *)
(* or in "raise" (an exception leaves the call: no result is returned).    *)
(* events are the log_risk_event calls and alerts the notifier calls of    *)
(* the call, in order.                                                     *)
(***************************************************************************)
Allow == [outcome |-> "allow", reason |-> "", events |-> <<>>, alerts |-> <<>>]

Reject(reason, events, alerts) ==
    [outcome |-> "reject", reason |-> reason, events |-> events, alerts |-> alerts]

Raise(exc) == [outcome |-> "raise", reason |-> exc, events |-> <<>>, alerts |-> <<>>]

RiskEvent(type, severity) == [type |-> type, severity |-> severity]

\* A result together with the RiskState the call leaves behind.
With(s, r) == [rm |-> s] @@ r

\* The result of a later call, with the events of the calls before it.
After(r1, r2) ==
    [r2 EXCEPT !.events = r1.events \o r2.events, !.alerts = r1.alerts \o r2.alerts]

(***************************************************************************)
(* RiskManager                                                             *)
(***************************************************************************)
RiskManager_init ==
    [daily_start_equity |-> None,
     peak_equity |-> None,
     circuit_breaker_triggered |-> FALSE,
     max_drawdown_triggered |-> FALSE,
     daily_loss_count |-> 0,
     last_reset_date |-> None]

\* A reset that takes effect on every call, whatever the date.
reset_daily_limits_every_call(s, now, current_equity) ==
    [s EXCEPT !.daily_start_equity = current_equity,
              !.circuit_breaker_triggered = FALSE,
              !.daily_loss_count = 0,
              !.last_reset_date = now]

\* A reset that clears both latches.
reset_daily_limits_clears_drawdown(s, now, current_equity) ==
    IF s.last_reset_date # now
    THEN [s EXCEPT !.daily_start_equity = current_equity,
                   !.circuit_breaker_triggered = FALSE,
                   !.max_drawdown_triggered = FALSE,
                   !.daily_loss_count = 0,
                   !.last_reset_date = now]
    ELSE s

reset_daily_limits(s, now, current_equity) ==
    IF s.last_reset_date # now
    THEN [s EXCEPT !.daily_start_equity = current_equity,
                   !.circuit_breaker_triggered = FALSE,
                   !.daily_loss_count = 0,
                   !.last_reset_date = now]
    ELSE s

\* A peak that follows the equity down as well as up.
update_peak_equity_unconditional(s, current_equity) ==
    [s EXCEPT !.peak_equity = current_equity]

update_peak_equity(s, current_equity) ==
    IF s.peak_equity = None \/ current_equity > s.peak_equity
    THEN [s EXCEPT !.peak_equity = current_equity]
    ELSE s

\* A limit that trips only beyond DAILY_LOSS_LIMIT, not at it.
check_daily_loss_limit_strict(s, current_equity) ==
    IF s.circuit_breaker_triggered
    THEN With(s, Reject("Circuit breaker already triggered today", <<>>, <<>>))
    ELSE IF s.daily_start_equity = None
    THEN With([s EXCEPT !.daily_start_equity = current_equity], Allow)
    ELSE IF s.daily_start_equity = 0
    THEN With(s, Raise("ZeroDivisionError"))
    ELSE IF RatioGT(s.daily_start_equity - current_equity, s.daily_start_equity,
                    Pct(DAILY_LOSS_LIMIT))
    THEN With([s EXCEPT !.circuit_breaker_triggered = TRUE],
              Reject("Daily loss limit hit",
                     <<RiskEvent("CIRCUIT_BREAKER", "CRITICAL")>>, <<"CRITICAL">>))
    ELSE With(s, Allow)

check_daily_loss_limit(s, current_equity) ==
    IF s.circuit_breaker_triggered
    THEN With(s, Reject("Circuit breaker already triggered today", <<>>, <<>>))
    ELSE IF s.daily_start_equity = None
    THEN With([s EXCEPT !.daily_start_equity = current_equity], Allow)
    ELSE IF s.daily_start_equity = 0
    THEN With(s, Raise("ZeroDivisionError"))
    ELSE IF RatioGE(s.daily_start_equity - current_equity, s.daily_start_equity,
                    Pct(DAILY_LOSS_LIMIT))
    THEN With([s EXCEPT !.circuit_breaker_triggered = TRUE],
              Reject("Daily loss limit hit",
                     <<RiskEvent("CIRCUIT_BREAKER", "CRITICAL")>>, <<"CRITICAL">>))
    ELSE With(s, Allow)

\* A drawdown latch that is logged but sends no notifier alert.
check_max_drawdown_unannounced(s, current_equity) ==
    IF s.max_drawdown_triggered
    THEN With(s, Reject("Max drawdown limit already triggered", <<>>, <<>>))
    ELSE IF s.peak_equity = None
    THEN With([s EXCEPT !.peak_equity = current_equity], Allow)
    ELSE LET s1 == update_peak_equity(s, current_equity)
             drop == s1.peak_equity - current_equity
         IN  IF s1.peak_equity = 0
             THEN With(s1, Raise("ZeroDivisionError"))
             ELSE IF RatioGE(drop, s1.peak_equity, Pct(MAX_DRAWDOWN))
             THEN With([s1 EXCEPT !.max_drawdown_triggered = TRUE],
                       Reject("Max drawdown hit",
                              <<RiskEvent("MAX_DRAWDOWN", "CRITICAL")>>, <<>>))
             ELSE IF RatioGE(drop, s1.peak_equity, DRAWDOWN_WARNING)
             THEN With(s1, [Allow EXCEPT
                            !.events = <<RiskEvent("DRAWDOWN_WARNING", "WARNING")>>])
             ELSE With(s1, Allow)

check_max_drawdown(s, current_equity) ==
    IF s.max_drawdown_triggered
    THEN With(s, Reject("Max drawdown limit already triggered", <<>>, <<>>))
    ELSE IF s.peak_equity = None
    THEN With([s EXCEPT !.peak_equity = current_equity], Allow)
    ELSE LET s1 == update_peak_equity(s, current_equity)
             drop == s1.peak_equity - current_equity
         IN  IF s1.peak_equity = 0
             THEN With(s1, Raise("ZeroDivisionError"))
             ELSE IF RatioGE(drop, s1.peak_equity, Pct(MAX_DRAWDOWN))
             THEN With([s1 EXCEPT !.max_drawdown_triggered = TRUE],
                       Reject("Max drawdown hit",
                              <<RiskEvent("MAX_DRAWDOWN", "CRITICAL")>>, <<"CRITICAL">>))
             ELSE IF RatioGE(drop, s1.peak_equity, DRAWDOWN_WARNING)
             THEN With(s1, [Allow EXCEPT
                            !.events = <<RiskEvent("DRAWDOWN_WARNING", "WARNING")>>])
             ELSE With(s1, Allow)

\* str.lower() on the spellings the model passes.
Lower(str) ==
    CASE str = "BUY" -> "buy"
      [] str = "Buy" -> "buy"
      [] str = "SELL" -> "sell"
      [] str = "STOCK" -> "stock"
      [] str = "Stock" -> "stock"
      [] str = "OPTION" -> "option"
      [] OTHER -> str

\* dict.get(key, default)
Get(d, key, default) == IF key \in DOMAIN d THEN d[key] ELSE default

\* A size cap that rejects a position at the cap as well as over it.
check_position_size_at_cap(position_value, portfolio_value, asset_type) ==
    IF portfolio_value = 0
    THEN Raise("ZeroDivisionError")
    ELSE LET max_size == IF Lower(asset_type) = "stock"
                         THEN MAX_POSITION_SIZE_STOCK
                         ELSE MAX_POSITION_SIZE_OPTION
         IN  IF RatioGE(position_value, portfolio_value, Pct(max_size))
             THEN Reject("Position too large",
                         <<RiskEvent("POSITION_SIZE", "WARNING")>>, <<>>)
             ELSE IF position_value < MIN_POSITION_SIZE
             THEN Reject("Position too small", <<>>, <<>>)
             ELSE Allow

check_position_size(position_value, portfolio_value, asset_type) ==
    IF portfolio_value = 0
    THEN Raise("ZeroDivisionError")
    ELSE LET max_size == IF Lower(asset_type) = "stock"
                         THEN MAX_POSITION_SIZE_STOCK
                         ELSE MAX_POSITION_SIZE_OPTION
         IN  IF RatioGT(position_value, portfolio_value, Pct(max_size))
             THEN Reject("Position too large",
                         <<RiskEvent("POSITION_SIZE", "WARNING")>>, <<>>)
             ELSE IF position_value < MIN_POSITION_SIZE
             THEN Reject("Position too small", <<>>, <<>>)
             ELSE Allow

\* A count that rejects only beyond a limit, not at it.
check_position_count_beyond(current_positions) ==
    LET total == Get(current_positions, "total", 0)
        stocks == Get(current_positions, "stocks", 0)
        options == Get(current_positions, "options", 0)
    IN  IF total > MAX_TOTAL_POSITIONS
        THEN Reject("Max positions reached", <<>>, <<>>)
        ELSE IF stocks > MAX_STOCK_POSITIONS
        THEN Reject("Max stock positions reached", <<>>, <<>>)
        ELSE IF options > MAX_OPTIONS_POSITIONS
        THEN Reject("Max option positions reached", <<>>, <<>>)
        ELSE Allow

check_position_count(current_positions) ==
    LET total == Get(current_positions, "total", 0)
        stocks == Get(current_positions, "stocks", 0)
        options == Get(current_positions, "options", 0)
    IN  IF total >= MAX_TOTAL_POSITIONS
        THEN Reject("Max positions reached", <<>>, <<>>)
        ELSE IF stocks >= MAX_STOCK_POSITIONS
        THEN Reject("Max stock positions reached", <<>>, <<>>)
        ELSE IF options >= MAX_OPTIONS_POSITIONS
        THEN Reject("Max option positions reached", <<>>, <<>>)
        ELSE Allow

check_buying_power(required_capital, available_buying_power) ==
    IF required_capital > available_buying_power
    THEN Reject("Insufficient buying power",
                <<RiskEvent("BUYING_POWER", "WARNING")>>, <<>>)
    ELSE Allow

check_sector_exposure(sector, new_position_value, current_sector_exposure, portfolio_value) ==
    LET current_exposure == Get(current_sector_exposure, sector, 0)
        new_exposure == current_exposure + new_position_value
    IN  IF portfolio_value = 0
        THEN Raise("ZeroDivisionError")
        ELSE IF RatioGT(new_exposure, portfolio_value, Pct(MAX_SECTOR_EXPOSURE))
        THEN Reject("Sector exposure too high",
                    <<RiskEvent("SECTOR_EXPOSURE", "WARNING")>>, <<>>)
        ELSE Allow

\* Optional arguments left at None: a sector name, a sector-exposure dict.
NoSector == "None"

NoExposure == "None" :> None

\* Python truth of an Optional[str]: neither None nor empty.
Truthy(str) == str # NoSector /\ str # ""

\* The buy-side checks of validate_trade, in the order it runs them; the
\* sector check only with both a sector and sector data.  None of them
\* reads or changes the RiskState.
buy_checks(t, portfolio_value, buying_power, position_value) ==
    <<check_position_size(position_value, portfolio_value, t.asset_type),
      check_buying_power(position_value, buying_power),
      check_position_count(t.current_positions)>>
    \o (IF Truthy(t.sector) /\ t.sector_exposure # NoExposure
        THEN <<check_sector_exposure(t.sector, position_value, t.sector_exposure,
                                     portfolio_value)>>
        ELSE <<>>)

\* The check a run of checks ends at: the first that does not pass, or the
\* last.  A check that passes logs no event.
EndsAt(checks) ==
    IF \E i \in DOMAIN checks : checks[i].outcome # "allow"
    THEN CHOOSE i \in DOMAIN checks :
             /\ checks[i].outcome # "allow"
             /\ \A j \in 1..(i - 1) : checks[j].outcome = "allow"
    ELSE Len(checks)

\* A composite gate that first takes the portfolio value as the day's start.
validate_trade_rebases_day(s, t) ==
    LET portfolio_value == Get(t.account_info, "portfolio_value", 0)
        buying_power == Get(t.account_info, "buying_power", 0)
        position_value == t.quantity * t.price
        r1 == check_daily_loss_limit([s EXCEPT !.daily_start_equity = portfolio_value],
                                     portfolio_value)
        r2 == After(r1, check_max_drawdown(r1.rm, portfolio_value))
        checks == buy_checks(t, portfolio_value, buying_power, position_value)
    IN  IF r1.outcome # "allow" THEN r1
        ELSE IF r2.outcome # "allow" \/ Lower(t.action) # "buy" THEN r2
        ELSE After(r2, With(r2.rm, checks[EndsAt(checks)]))

\* A composite gate that consults the drawdown gate before the daily-loss gate.
validate_trade_drawdown_first(s, t) ==
    LET portfolio_value == Get(t.account_info, "portfolio_value", 0)
        buying_power == Get(t.account_info, "buying_power", 0)
        position_value == t.quantity * t.price
        r1 == check_max_drawdown(s, portfolio_value)
        r2 == After(r1, check_daily_loss_limit(r1.rm, portfolio_value))
        checks == buy_checks(t, portfolio_value, buying_power, position_value)
    IN  IF r1.outcome # "allow" THEN r1
        ELSE IF r2.outcome # "allow" \/ Lower(t.action) # "buy" THEN r2
        ELSE After(r2, With(r2.rm, checks[EndsAt(checks)]))

\* t: the arguments symbol, action, quantity, price, asset_type, account_info,
\* current_positions, sector, sector_exposure.
validate_trade(s, t) ==
    LET portfolio_value == Get(t.account_info, "portfolio_value", 0)
        buying_power == Get(t.account_info, "buying_power", 0)
        position_value == t.quantity * t.price
        r1 == check_daily_loss_limit(s, portfolio_value)
        r2 == After(r1, check_max_drawdown(r1.rm, portfolio_value))
        checks == buy_checks(t, portfolio_value, buying_power, position_value)
    IN  IF r1.outcome # "allow" THEN r1
        ELSE IF r2.outcome # "allow" \/ Lower(t.action) # "buy" THEN r2
        ELSE After(r2, With(r2.rm, checks[EndsAt(checks)]))

\* An Optional amount is true when it is neither None nor 0.
Nonzero(x) == x # None /\ x # 0

\* An exit rule that tests the profit target before the stop.
should_exit_position_target_first(symbol, entry_price, current_price, position_type, stop_loss, profit_target) ==
    IF Nonzero(profit_target) /\ current_price >= profit_target
    THEN [outcome |-> "exit", reason |-> "Profit target reached",
          events |-> <<>>, alerts |-> <<>>]
    ELSE IF Nonzero(stop_loss) /\ current_price <= stop_loss
    THEN IF entry_price = 0
         THEN [outcome |-> "raise", reason |-> "ZeroDivisionError",
               events |-> <<RiskEvent("STOP_LOSS", "WARNING")>>, alerts |-> <<>>]
         ELSE [outcome |-> "exit", reason |-> "Stop loss triggered",
               events |-> <<RiskEvent("STOP_LOSS", "WARNING")>>, alerts |-> <<"stop_loss">>]
    ELSE [outcome |-> "hold", reason |-> "", events |-> <<>>, alerts |-> <<>>]

\* Prices in cents.  The result is "exit" (True, reason), "hold" (False, "")
\* or "raise".
should_exit_position(symbol, entry_price, current_price, position_type, stop_loss, profit_target) ==
    IF Nonzero(stop_loss) /\ current_price <= stop_loss
    THEN IF entry_price = 0
         THEN [outcome |-> "raise", reason |-> "ZeroDivisionError",
               events |-> <<RiskEvent("STOP_LOSS", "WARNING")>>, alerts |-> <<>>]
         ELSE [outcome |-> "exit", reason |-> "Stop loss triggered",
               events |-> <<RiskEvent("STOP_LOSS", "WARNING")>>, alerts |-> <<"stop_loss">>]
    ELSE IF Nonzero(profit_target) /\ current_price >= profit_target
    THEN [outcome |-> "exit", reason |-> "Profit target reached",
          events |-> <<>>, alerts |-> <<>>]
    ELSE [outcome |-> "hold", reason |-> "", events |-> <<>>, alerts |-> <<>>]

\* abs()
Abs(x) == IF x < 0 THEN 0 - x ELSE x

\* drawdown and daily_loss_pct are ratios [num, den], den > 0.
get_risk_status(s, drawdown, daily_loss_pct) ==
    IF s.max_drawdown_triggered \/ s.circuit_breaker_triggered
    THEN "CRITICAL"
    ELSE IF RatioGT(drawdown.num, drawdown.den, DRAWDOWN_WARNING)
    THEN "HIGH"
    ELSE IF \/ RatioGT(drawdown.num, drawdown.den,
                       Threshold(MAX_DRAWDOWN * 50, 10000, FALSE))
            \/ RatioGT(Abs(daily_loss_pct.num), daily_loss_pct.den,
                       Threshold(DAILY_LOSS_LIMIT * 75, 10000, FALSE))
    THEN "MEDIUM"
    ELSE "LOW"

get_risk_metrics(s, account_info) ==
    LET current_equity == Get(account_info, "portfolio_value", 0)
        current_drawdown ==
            IF Nonzero(s.peak_equity)
            THEN [num |-> s.peak_equity - current_equity, den |-> s.peak_equity]
            ELSE [num |-> 0, den |-> 1]
        daily_pnl_pct ==
            IF Nonzero(s.daily_start_equity)
            THEN [num |-> current_equity - s.daily_start_equity,
                  den |-> s.daily_start_equity]
            ELSE [num |-> 0, den |-> 1]
    IN  [current_equity |-> current_equity,
         peak_equity |-> IF Nonzero(s.peak_equity) THEN s.peak_equity ELSE current_equity,
         current_drawdown |-> current_drawdown,
         daily_pnl_pct |-> daily_pnl_pct,
         circuit_breaker_triggered |-> s.circuit_breaker_triggered,
         max_drawdown_triggered |-> s.max_drawdown_triggered,
         risk_status |-> get_risk_status(s, current_drawdown, daily_pnl_pct)]

(***************************************************************************)
(* Arguments the callers of RiskManager pass                               *)
(***************************************************************************)
\* quantity * price: 500 is below MIN_POSITION_SIZE, 6000 is 6 % of 100000
\* (within the stock cap, above the option cap), 11000 is 11 %.
Quantities == {5, 60, 110}

BuyingPowers == {5000, 200000}

AssetTypes == {"stock", "option"}

Counts(total, stocks, options) ==
    [total |-> total, stocks |-> stocks, options |-> options]

PositionCounts ==
    {Counts(0, 0, 0), Counts(MAX_TOTAL_POSITIONS, 3, MAX_OPTIONS_POSITIONS),
     Counts(MAX_STOCK_POSITIONS, MAX_STOCK_POSITIONS, 0)}

\* (sector, sector_exposure) pairs: neither, one of the two, both.
SectorArgs ==
    {<<NoSector, NoExposure>>, <<"Tech", NoExposure>>,
     <<NoSector, "Tech" :> 25000>>, <<"Tech", "Tech" :> 25000>>}

Trade(action, quantity, price, asset_type, portfolio_value, buying_power, current_positions, sector_args) ==
    [symbol |-> "AAPL", action |-> action, quantity |-> quantity, price |-> price,
     asset_type |-> asset_type,
     account_info |-> [portfolio_value |-> portfolio_value,
                       buying_power |-> buying_power],
     current_positions |-> current_positions,
     sector |-> sector_args[1], sector_exposure |-> sector_args[2]]

\* A sell order whose buy-side checks would each fail.
SellTrade(portfolio_value) ==
    Trade("sell", 110, 100, "option", portfolio_value, 5000,
          Counts(MAX_TOTAL_POSITIONS, 3, 0), <<"Tech", "Tech" :> 25000>>)

\* The orders of the RiskManager specification: one buy and one sell per equity.
Trades ==
    {Trade("buy", 60, 100, "stock", e, 200000, Counts(0, 0, 0),
           <<NoSector, NoExposure>>) : e \in AccountEquities}
    \cup {SellTrade(e) : e \in AccountEquities}

(***************************************************************************)
(* The RiskManager under any sequence of calls                             *)
(***************************************************************************)
\* Arguments of should_exit_position, in cents: an entry of 0 and of $100;
\* a current price of 0, below the stop, and above the target; a stop not
\* supplied, of 0, and 8 % under the entry; a target not supplied, one under
\* the stop (met together with it at 9000), and 15 % over the entry.
EntryPrices == {0, 10000}

ExitPrices == {0, 9000, 12000}

StopLosses == {None, 0, 9200}

ProfitTargets == {None, 9000, 11500}

\* The record of a call that returns nothing.
Done(op, args, pre) ==
    [op |-> op, args |-> args, pre |-> pre, outcome |-> "none", reason |-> "",
     events |-> <<>>, alerts |-> <<>>, value |-> ""]

\* The record of a gate call with result r.
Gate(op, args, pre, r) ==
    [op |-> op, args |-> args, pre |-> pre, outcome |-> r.outcome,
     reason |-> r.reason, events |-> r.events, alerts |-> r.alerts, value |-> ""]

\* The day the breaker was latched, once a call has gone from s to s2.
Tripped(s, s2) ==
    IF ~s.circuit_breaker_triggered /\ s2.circuit_breaker_triggered
    THEN today ELSE tripped_on

\* risk_manager = RiskManager(), the module's global instance.
InitRiskManager ==
    /\ rm = RiskManager_init
    /\ today = 1
    /\ ret = Done("__init__", <<>>, RiskManager_init)
    /\ tripped_on = None

Init ==
    /\ InitRiskManager
    /\ scan = Idle
    /\ opt = Idle
    /\ bot = Idle
    /\ broker = Idle

ResetDailyLimits(e) ==
    /\ rm' = reset_daily_limits(rm, today, e)
    /\ ret' = Done("reset_daily_limits", [current_equity |-> e], rm)
    /\ UNCHANGED <<today, tripped_on>>
    /\ UNCHANGED <<scan, opt, bot, broker>>

UpdatePeakEquity(e) ==
    /\ rm' = update_peak_equity(rm, e)
    /\ ret' = Done("update_peak_equity", [current_equity |-> e], rm)
    /\ UNCHANGED <<today, tripped_on>>
    /\ UNCHANGED <<scan, opt, bot, broker>>

CheckDailyLossLimit(e) ==
    LET r == check_daily_loss_limit(rm, e)
    IN  /\ rm' = r.rm
        /\ ret' = Gate("check_daily_loss_limit", [current_equity |-> e], rm, r)
        /\ tripped_on' = Tripped(rm, r.rm)
        /\ UNCHANGED today
        /\ UNCHANGED <<scan, opt, bot, broker>>

CheckMaxDrawdown(e) ==
    LET r == check_max_drawdown(rm, e)
    IN  /\ rm' = r.rm
        /\ ret' = Gate("check_max_drawdown", [current_equity |-> e], rm, r)
        /\ UNCHANGED <<today, tripped_on>>
        /\ UNCHANGED <<scan, opt, bot, broker>>

CheckPositionSize(v, e, a) ==
    /\ ret' = Gate("check_position_size",
                   [position_value |-> v, portfolio_value |-> e, asset_type |-> a],
                   rm, check_position_size(v, e, a))
    /\ UNCHANGED <<rm, today, tripped_on>>
    /\ UNCHANGED <<scan, opt, bot, broker>>

CheckPositionCount(c) ==
    /\ ret' = Gate("check_position_count", [current_positions |-> c], rm,
                   check_position_count(c))
    /\ UNCHANGED <<rm, today, tripped_on>>
    /\ UNCHANGED <<scan, opt, bot, broker>>

CheckBuyingPower(v, bp) ==
    /\ ret' = Gate("check_buying_power",
                   [required_capital |-> v, available_buying_power |-> bp], rm,
                   check_buying_power(v, bp))
    /\ UNCHANGED <<rm, today, tripped_on>>
    /\ UNCHANGED <<scan, opt, bot, broker>>

CheckSectorExposure(v, x, e) ==
    /\ ret' = Gate("check_sector_exposure",
                   [sector |-> "Tech", new_position_value |-> v,
                    current_sector_exposure |-> x, portfolio_value |-> e], rm,
                   check_sector_exposure("Tech", v, x, e))
    /\ UNCHANGED <<rm, today, tripped_on>>
    /\ UNCHANGED <<scan, opt, bot, broker>>

ValidateTrade(t) ==
    LET r == validate_trade(rm, t)
    IN  /\ rm' = r.rm
        /\ ret' = Gate("validate_trade", t, rm, r)
        /\ tripped_on' = Tripped(rm, r.rm)
        /\ UNCHANGED today
        /\ UNCHANGED <<scan, opt, bot, broker>>

GetRiskMetrics(e) ==
    /\ ret' = [Done("get_risk_metrics", [portfolio_value |-> e], rm) EXCEPT
               !.value = get_risk_metrics(rm, [portfolio_value |-> e]).risk_status]
    /\ UNCHANGED <<rm, today, tripped_on>>
    /\ UNCHANGED <<scan, opt, bot, broker>>

ShouldExitPosition(entry, current, stop, target) ==
    /\ ret' = Gate("should_exit_position",
                   [symbol |-> "AAPL", entry_price |-> entry, current_price |-> current,
                    position_type |-> "stock", stop_loss |-> stop,
                    profit_target |-> target], rm,
                   should_exit_position("AAPL", entry, current, "stock", stop, target))
    /\ UNCHANGED <<rm, today, tripped_on>>
    /\ UNCHANGED <<scan, opt, bot, broker>>

\* Midnight passes: datetime.now().date() moves on.
NewDay ==
    /\ today < MaxDay
    /\ today' = today + 1
    /\ UNCHANGED <<rm, ret, tripped_on>>
    /\ UNCHANGED <<scan, opt, bot, broker>>

Next ==
    \/ \E e \in DayEquities : ResetDailyLimits(e)
    \/ \E e \in PeakEquities : UpdatePeakEquity(e)
    \/ \E e \in DayEquities : CheckDailyLossLimit(e)
    \/ \E e \in PeakEquities : CheckMaxDrawdown(e)
    \/ \E q \in {5, 60}, e \in {0, 100000}, a \in AssetTypes :
           CheckPositionSize(q * 100, e, a)
    \/ \E c \in PositionCounts : CheckPositionCount(c)
    \/ \E bp \in BuyingPowers : CheckBuyingPower(6000, bp)
    \/ \E x \in {NoExposure, "Tech" :> 25000}, e \in {0, 100000} :
           CheckSectorExposure(6000, x, e)
    \/ \E t \in Trades : ValidateTrade(t)
    \/ \E e \in AccountEquities : GetRiskMetrics(e)
    \/ NewDay

Spec == Init /\ [][Next]_vars

\* The exit rule, between the calls that move the day's start and the breaker.
NextExit ==
    \/ \E e \in DayEquities : ResetDailyLimits(e)
    \/ \E e \in DayEquities : CheckDailyLossLimit(e)
    \/ \E entry \in EntryPrices, current \in ExitPrices, stop \in StopLosses,
          target \in ProfitTargets :
           ShouldExitPosition(entry, current, stop, target)
    \/ NewDay

SpecExit == Init /\ [][NextExit]_vars

(***************************************************************************)
(* The size and count limits at their edges                                *)
(***************************************************************************)
\* position_value in dollars: under the minimum, one dollar under it, the
\* minimum, 5 % of 100000 and one dollar more, 10 % of 100000 and one
\* dollar more.
LimitValues == {900, 999, 1000, 5000, 5001, 10000, 10001}

\* portfolio_value: none, one of which 900 is 18 %, and 100000.
LimitPortfolios == {0, 5000, 100000}

\* asset_type: 'stock' in three spellings, 'option', and another string.
LimitAssetTypes == {"stock", "Stock", "STOCK", "option", "crypto"}

\* A dict of counts without some of its keys.
Only(keys, counts) == [k \in keys |-> counts[k]]

\* current_positions: each limit one short, reached alone and reached
\* together with the others; dicts that lack keys, the empty dict among them.
LimitCounts ==
    {Counts(14, 7, 7), Counts(14, 3, 11), Counts(15, 7, 8), Counts(16, 7, 9),
     Counts(8, 8, 0), Counts(12, 0, 12), Counts(15, 8, 7), Counts(19, 7, 12),
     Counts(20, 8, 12),
     Only({"stocks", "options"}, Counts(20, 8, 12)),
     Only({"options"}, Counts(20, 8, 12)),
     Only({"total", "options"}, Counts(14, 8, 6)),
     Only({"total"}, Counts(14, 8, 12)),
     Only({}, Counts(20, 8, 12))}

NextLimits ==
    \/ \E e \in DayEquities : ResetDailyLimits(e)
    \/ \E v \in LimitValues, e \in LimitPortfolios, a \in LimitAssetTypes :
           CheckPositionSize(v, e, a)
    \/ \E c \in LimitCounts : CheckPositionCount(c)

SpecLimits == Init /\ [][NextLimits]_vars

(***************************************************************************)
(* validate_trade over orders that fail each check alone and together      *)
(***************************************************************************)
\* (quantity, asset_type) at price 100: a stock order below the minimum, one
\* within the cap, one above it, and an option order above the option cap.
OrderSizes == {<<5, "stock">>, <<60, "stock">>, <<110, "Stock">>, <<60, "OPTION">>}

\* (sector, sector_exposure) pairs: neither, either one, both with the sector
\* over its cap, both with the sector free.
OrderSectors == SectorArgs \cup {<<"Health", "Tech" :> 25000>>}

Orders ==
    {Trade("BUY", z[1], 100, z[2], e, bp, c, x) :
        z \in OrderSizes, e \in AccountEquities, bp \in BuyingPowers,
        c \in {Counts(0, 0, 0), Counts(MAX_STOCK_POSITIONS, MAX_STOCK_POSITIONS, 0)},
        x \in OrderSectors}
    \cup {SellTrade(e) : e \in AccountEquities}

NextTrade ==
    \/ \E e \in {71000, 100000} : ResetDailyLimits(e)
    \/ UpdatePeakEquity(120000)
    \/ \E t \in Orders : ValidateTrade(t)

SpecTrade == Init /\ [][NextTrade]_vars

(***************************************************************************)
(* Properties of the RiskManager                                           *)
(***************************************************************************)
\* C1: once check_daily_loss_limit has rejected on the loss threshold, the
\* breaker stays latched for the rest of that calendar day, so every later
\* check_daily_loss_limit call of the day rejects, whatever other calls
\* (reset_daily_limits on the same day included) come between; the breaker
\* is cleared only by a reset_daily_limits call on a later date.
C1_BreakerStickyForDay ==
    /\ tripped_on = today =>
          /\ rm.circuit_breaker_triggered
          /\ ret.op = "check_daily_loss_limit" => ret.outcome = "reject"
    /\ ret.pre.circuit_breaker_triggered /\ ~rm.circuit_breaker_triggered =>
          ret.op = "reset_daily_limits" /\ rm.last_reset_date > tripped_on

\* C2: max_drawdown_triggered, once true, is still true after every call,
\* and a check_max_drawdown call made while it is true rejects.
C2_DrawdownLatchPermanent ==
    ret.pre.max_drawdown_triggered =>
        /\ rm.max_drawdown_triggered
        /\ ret.op = "check_max_drawdown" => ret.outcome = "reject"

\* A check_max_drawdown call at a new equity high, on a day reset after the
\* latch, still rejects.
C2_Witness ==
    /\ ret.op = "check_max_drawdown"
    /\ ret.pre.max_drawdown_triggered
    /\ ret.pre.last_reset_date = 2
    /\ ret.args.current_equity = 120000
    /\ ret.outcome = "reject"

\* C3: once set, peak_equity never decreases under any call, and after
\* update_peak_equity(e) it is the maximum of its previous value and e.
C3_PeakMonotone ==
    /\ ret.pre.peak_equity # None => rm.peak_equity >= ret.pre.peak_equity
    /\ ret.op = "update_peak_equity" =>
          rm.peak_equity = IF ret.pre.peak_equity = None
                           THEN ret.args.current_equity
                           ELSE Max(ret.pre.peak_equity, ret.args.current_equity)

\* update_peak_equity with an equity below the recorded peak.
C3_Witness ==
    /\ ret.op = "update_peak_equity"
    /\ ret.pre.peak_equity = 120000
    /\ ret.args.current_equity = 71000
    /\ rm.peak_equity = 120000

\* C5: with the breaker clear and a positive daily_start_equity,
\* check_daily_loss_limit(equity) rejects and latches the breaker exactly
\* when (daily_start_equity - equity) / daily_start_equity >= DAILY_LOSS_LIMIT,
\* the limit itself included, and otherwise allows and leaves it clear;
\* from 100000, equity 96500 is rejected and the breaker latched.
C5_DailyLossThreshold ==
    /\ ret.op = "check_daily_loss_limit"
    /\ ~ret.pre.circuit_breaker_triggered
    /\ ret.pre.daily_start_equity # None
    /\ ret.pre.daily_start_equity > 0
    => LET start == ret.pre.daily_start_equity
           equity == ret.args.current_equity
       IN  /\ IF (start - equity) * 100 >= DAILY_LOSS_LIMIT * start
              THEN ret.outcome = "reject" /\ rm.circuit_breaker_triggered
              ELSE ret.outcome = "allow" /\ ~rm.circuit_breaker_triggered
           /\ start = 100000 /\ equity = 96500 =>
                 ret.outcome = "reject" /\ rm.circuit_breaker_triggered

\* The day started at 100000 and the equity is exactly 3 % down.
C5_Witness ==
    /\ ret.op = "check_daily_loss_limit"
    /\ ~ret.pre.circuit_breaker_triggered
    /\ ret.pre.daily_start_equity = 100000
    /\ ret.args.current_equity = 97000
    /\ ret.outcome = "reject"
    /\ rm.circuit_breaker_triggered

\* C6: with the latch clear and a positive peak recorded,
\* check_max_drawdown(equity) rejects and latches exactly when the drawdown
\* from the peak (raised to equity first) is >= MAX_DRAWDOWN; a drawdown in
\* [0.75 * MAX_DRAWDOWN, MAX_DRAWDOWN) is allowed, not latched, and emits a
\* WARNING event; from 120000, equity 71000 is rejected and latched.
C6_DrawdownThresholds ==
    /\ ret.op = "check_max_drawdown"
    /\ ~ret.pre.max_drawdown_triggered
    /\ ret.pre.peak_equity # None
    /\ ret.pre.peak_equity > 0
    => LET peak == Max(ret.pre.peak_equity, ret.args.current_equity)
           drop == peak - ret.args.current_equity
       IN  /\ IF drop * 100 >= MAX_DRAWDOWN * peak
              THEN ret.outcome = "reject" /\ rm.max_drawdown_triggered
              ELSE /\ ret.outcome = "allow"
                   /\ ~rm.max_drawdown_triggered
                   /\ drop * 400 >= 3 * MAX_DRAWDOWN * peak =>
                         ret.events = <<RiskEvent("DRAWDOWN_WARNING", "WARNING")>>
           /\ peak = 120000 /\ ret.args.current_equity = 71000 =>
                 ret.outcome = "reject" /\ rm.max_drawdown_triggered

\* The divisor of the call's ratio is zero, or the call takes a zero equity
\* as the start of the day or as the peak.
ZeroDenominator ==
    \/ /\ ret.op \in {"check_position_size", "check_sector_exposure"}
       /\ ret.args.portfolio_value = 0
    \/ /\ ret.op = "validate_trade"
       /\ ret.args.account_info.portfolio_value = 0
    \/ /\ ret.op = "check_daily_loss_limit"
       /\ \/ ret.pre.daily_start_equity = 0
          \/ ret.pre.daily_start_equity = None /\ ret.args.current_equity = 0
    \/ /\ ret.op = "check_max_drawdown"
       /\ ret.args.current_equity = 0
       /\ ret.pre.peak_equity \in {None, 0}

\* C7: a gate whose ratio has a zero denominator rejects: it neither
\* approves nor ends without a result.
C7_ZeroDenominatorFailsClosed ==
    ZeroDenominator => ret.outcome = "reject"

\* The applicable checks of a validate_trade call, in the order of the call,
\* each evaluated on its own from the state before the call.
ApplicableChecks(s, t) ==
    LET pv == t.account_info.portfolio_value
        value == t.quantity * t.price
        gates == <<check_daily_loss_limit(s, pv), check_max_drawdown(s, pv)>>
        buy == <<check_position_size(value, pv, t.asset_type),
                 check_buying_power(value, t.account_info.buying_power),
                 check_position_count(t.current_positions)>>
        sector == <<check_sector_exposure(t.sector, value, t.sector_exposure, pv)>>
    IN  IF t.action \notin {"buy", "BUY", "Buy"} THEN gates
        ELSE IF t.sector \in {NoSector, ""} \/ t.sector_exposure = NoExposure
        THEN gates \o buy
        ELSE gates \o buy \o sector

\* The checks that do not pass.
Failing(checks) == {i \in DOMAIN checks : checks[i].outcome # "allow"}

\* The first of a non-empty set of indices.
First(S) == CHOOSE i \in S : \A j \in S : i <= j

\* The events of the first n checks, in order.
RECURSIVE EventsUpTo(_, _)
EventsUpTo(checks, n) ==
    IF n = 0 THEN <<>> ELSE EventsUpTo(checks, n - 1) \o checks[n].events

\* C8: validate_trade approves exactly when every applicable check passes;
\* otherwise its result is that of the first failing check in the order
\* daily loss, drawdown, position size, buying power, position count, sector
\* exposure (the sector check only with both a sector and sector data, a
\* non-buy order only the two gates); no later check is evaluated: the
\* events are those of the checks up to the failing one, and a daily-loss
\* rejection leaves max_drawdown_triggered and peak_equity as they were.
C8_ValidateTradeFirstFailure ==
    ret.op = "validate_trade" =>
        LET checks == ApplicableChecks(ret.pre, ret.args)
            failing == Failing(checks)
        IN  /\ ret.outcome = "allow" <=> failing = {}
            /\ failing # {} =>
                  /\ ret.outcome = checks[First(failing)].outcome
                  /\ ret.reason = checks[First(failing)].reason
                  /\ ret.events = EventsUpTo(checks, First(failing))
            /\ failing # {} /\ First(failing) = 1 =>
                  /\ rm.max_drawdown_triggered = ret.pre.max_drawdown_triggered
                  /\ rm.peak_equity = ret.pre.peak_equity

\* A buy order rejected by the daily-loss gate at an equity that is also
\* more than MAX_DRAWDOWN below the peak, and fails the buying-power check.
C8_Witness ==
    /\ ret.op = "validate_trade"
    /\ ret.args.action = "BUY"
    /\ ret.pre.daily_start_equity = 100000
    /\ ret.pre.peak_equity = 120000
    /\ ~ret.pre.circuit_breaker_triggered
    /\ ret.args.account_info.portfolio_value = 71000
    /\ ret.args.account_info.buying_power = 5000
    /\ ret.outcome = "reject"
    /\ ret.reason = "Daily loss limit hit"
    /\ ~rm.max_drawdown_triggered

\* C13: a reset_daily_limits call made when last_reset_date is already
\* today changes no field of the RiskState, whatever the equity, so the
\* day's starting equity and a latched breaker are kept; made on any other
\* date it sets daily_start_equity to the equity given, clears
\* circuit_breaker_triggered and sets last_reset_date to today.
C13_ResetIdempotentWithinDay ==
    [][\A e \in DayEquities :
          ResetDailyLimits(e) =>
              IF rm.last_reset_date = today
              THEN rm' = rm
              ELSE /\ rm'.daily_start_equity = e
                   /\ ~rm'.circuit_breaker_triggered
                   /\ rm'.last_reset_date = today]_vars

\* A second reset of the day, with another equity, while the breaker is
\* latched: nothing has changed.
C13_Witness ==
    /\ ret.op = "reset_daily_limits"
    /\ ret.pre.last_reset_date = today
    /\ ret.pre.circuit_breaker_triggered
    /\ ret.pre.daily_start_equity = 100000
    /\ ret.args.current_equity = 96500
    /\ rm = ret.pre

\* C15: get_risk_metrics reports CRITICAL when either latch is set;
\* otherwise HIGH when the drawdown exceeds 0.75 * MAX_DRAWDOWN; otherwise
\* MEDIUM when the drawdown exceeds 0.50 * MAX_DRAWDOWN or the day's loss
\* (daily_start_equity - equity) / daily_start_equity exceeds
\* 0.75 * DAILY_LOSS_LIMIT; otherwise LOW, as on a day that is up.
C15_RiskStatusClassification ==
    ret.op = "get_risk_metrics" =>
        LET s == ret.pre
            equity == ret.args.portfolio_value
            peak == IF s.peak_equity \in {None, 0} THEN 1 ELSE s.peak_equity
            drop == IF s.peak_equity \in {None, 0} THEN 0 ELSE s.peak_equity - equity
            start == IF s.daily_start_equity \in {None, 0} THEN 1 ELSE s.daily_start_equity
            loss == IF s.daily_start_equity \in {None, 0} THEN 0
                    ELSE s.daily_start_equity - equity
        IN  ret.value =
                IF s.circuit_breaker_triggered \/ s.max_drawdown_triggered THEN "CRITICAL"
                ELSE IF drop * 10000 > MAX_DRAWDOWN * 75 * peak THEN "HIGH"
                ELSE IF \/ drop * 10000 > MAX_DRAWDOWN * 50 * peak
                        \/ loss * 10000 > DAILY_LOSS_LIMIT * 75 * start
                THEN "MEDIUM"
                ELSE "LOW"

\* C12: a call of should_exit_position whose current price is at or under
\* the stop supplied, a stop of 0 included, returns exit, whatever the target.
C12_ExitAtOrUnderStop ==
    ret.op = "should_exit_position" /\ ret.args.stop_loss # None
        /\ ret.args.current_price <= ret.args.stop_loss =>
            ret.outcome = "exit"

\* C22: check_position_count rejects exactly when the total count has
\* reached MAX_TOTAL_POSITIONS, or the stock count MAX_STOCK_POSITIONS, or
\* the option count MAX_OPTIONS_POSITIONS, a count the dict lacks being 0;
\* the reason names the first limit reached in the order total, stocks,
\* options, and an approval has an empty reason.
C22_PositionCountLimits ==
    ret.op = "check_position_count" =>
        LET c == ret.args.current_positions
            total == IF "total" \in DOMAIN c THEN c["total"] ELSE 0
            stocks == IF "stocks" \in DOMAIN c THEN c["stocks"] ELSE 0
            options == IF "options" \in DOMAIN c THEN c["options"] ELSE 0
        IN  /\ ret.outcome \in {"allow", "reject"}
            /\ ret.outcome = "reject" <=>
                   \/ total >= MAX_TOTAL_POSITIONS
                   \/ stocks >= MAX_STOCK_POSITIONS
                   \/ options >= MAX_OPTIONS_POSITIONS
            /\ ret.reason =
                   IF total >= MAX_TOTAL_POSITIONS THEN "Max positions reached"
                   ELSE IF stocks >= MAX_STOCK_POSITIONS THEN "Max stock positions reached"
                   ELSE IF options >= MAX_OPTIONS_POSITIONS THEN "Max option positions reached"
                   ELSE ""

\* A dict without a total, whose stock and option counts have both reached
\* their limits, is rejected for the stocks.
C22_Witness ==
    /\ ret.op = "check_position_count"
    /\ DOMAIN ret.args.current_positions = {"stocks", "options"}
    /\ ret.args.current_positions["stocks"] = MAX_STOCK_POSITIONS
    /\ ret.args.current_positions["options"] = MAX_OPTIONS_POSITIONS
    /\ ret.outcome = "reject"
    /\ ret.reason = "Max stock positions reached"

\* The total limit reached exactly, with the other two counts under theirs.
C22_WitnessAtLimit ==
    /\ ret.op = "check_position_count"
    /\ ret.args.current_positions = Counts(MAX_TOTAL_POSITIONS, 7, 8)
    /\ ret.outcome = "reject"

\* C23: for a positive portfolio_value, check_position_size rejects exactly
\* when position_value / portfolio_value is strictly greater than the cap
\* (MAX_POSITION_SIZE_STOCK for 'stock' in any letter case,
\* MAX_POSITION_SIZE_OPTION for every other asset_type) or position_value is
\* below MIN_POSITION_SIZE; a value at the cap or at the minimum is allowed,
\* and a position both over the cap and under the minimum is rejected as
\* too large.
C23_PositionSizeLimits ==
    ret.op = "check_position_size" /\ ret.args.portfolio_value > 0 =>
        LET value == ret.args.position_value
            cap == IF ret.args.asset_type \in {"stock", "Stock", "STOCK"}
                   THEN MAX_POSITION_SIZE_STOCK
                   ELSE MAX_POSITION_SIZE_OPTION
            too_large == value * 100 > cap * ret.args.portfolio_value
            too_small == value < MIN_POSITION_SIZE
        IN  /\ ret.outcome \in {"allow", "reject"}
            /\ ret.outcome = "reject" <=> too_large \/ too_small
            /\ ret.reason =
                   IF too_large THEN "Position too large"
                   ELSE IF too_small THEN "Position too small"
                   ELSE ""

\* A stock position, spelt in capitals, of exactly 10 % of the portfolio is
\* allowed.
C23_Witness ==
    /\ ret.op = "check_position_size"
    /\ ret.args.asset_type = "STOCK"
    /\ ret.args.position_value * 100 = MAX_POSITION_SIZE_STOCK * ret.args.portfolio_value
    /\ ret.args.portfolio_value > 0
    /\ ret.outcome = "allow"

\* A position over the cap and under the minimum is rejected as too large.
C23_WitnessBoth ==
    /\ ret.op = "check_position_size"
    /\ ret.args.position_value < MIN_POSITION_SIZE
    /\ ret.args.portfolio_value > 0
    /\ ret.args.position_value * 100 > MAX_POSITION_SIZE_STOCK * ret.args.portfolio_value
    /\ ret.outcome = "reject"
    /\ ret.reason = "Position too large"

C27_WitnessTarget ==
    /\ ret.op = "should_exit_position"
    /\ ret.args.stop_loss = 9200 /\ ret.args.profit_target = 11500
    /\ ret.args.current_price = 12000
    /\ ret.reason = "Profit target reached" /\ ret.alerts = <<>>

\* C28: a validate_trade call that returns with an equity at or below
\* (1 - MAX_DRAWDOWN) * peak_equity leaves max_drawdown_triggered true, also
\* when the daily-loss gate rejected in that call.
C28_DrawdownLatchedWhenObserved ==
    ret.op = "validate_trade" /\ ret.outcome # "raise"
        /\ ret.pre.peak_equity # None /\ ret.pre.peak_equity > 0
        /\ ret.args.account_info.portfolio_value * 100
               <= (100 - MAX_DRAWDOWN) * ret.pre.peak_equity =>
            rm.max_drawdown_triggered

\* The latches a call switched from false to true, from the state before the
\* call to the state after it.
Latched(pre, post) ==
    (IF ~pre.circuit_breaker_triggered /\ post.circuit_breaker_triggered THEN 1 ELSE 0)
    + (IF ~pre.max_drawdown_triggered /\ post.max_drawdown_triggered THEN 1 ELSE 0)

IsCritical(e) == e.severity = "CRITICAL"

IsCriticalAlert(a) == a = "CRITICAL"

\* C24: every call of the RiskManager logs as many CRITICAL risk events and
\* sends as many CRITICAL notifier alerts as it switched latches
\* (circuit_breaker_triggered, max_drawdown_triggered) from false to true,
\* so the alerts sent over a sequence of calls number the false-to-true
\* transitions; a rejection carries a non-empty reason and an approval an
\* empty one.
C24_CriticalAlertPerLatch ==
    /\ Len(SelectSeq(ret.events, IsCritical)) = Latched(ret.pre, rm)
    /\ Len(SelectSeq(ret.alerts, IsCriticalAlert)) = Latched(ret.pre, rm)
    /\ ret.outcome = "reject" => ret.reason # ""
    /\ ret.outcome = "allow" => ret.reason = ""

\* validate_trade latches the drawdown breaker, logging and alerting once.
C24_Witness ==
    /\ ret.op = "validate_trade"
    /\ ~ret.pre.max_drawdown_triggered /\ rm.max_drawdown_triggered
    /\ ret.alerts = <<"CRITICAL">>
    /\ ret.outcome = "reject"

\* check_daily_loss_limit latches the circuit breaker in the same way.
C24_WitnessBreaker ==
    /\ ret.op = "check_daily_loss_limit"
    /\ ~ret.pre.circuit_breaker_triggered /\ rm.circuit_breaker_triggered
    /\ ret.alerts = <<"CRITICAL">>
    /\ ret.events = <<RiskEvent("CIRCUIT_BREAKER", "CRITICAL")>>

(***************************************************************************)
(* MomentumStrategy                                                        *)
(*                                                                         *)
(* Prices and indicator values are whole numbers; a sentiment score, a     *)
(* model probability and a model accuracy are in hundredths (the sources   *)
(* round them to four decimals, so a value k/100 is the same binary64 as   *)
(* the literal it is compared with).  Inputs stay off the two products     *)
(* whose binary64 value is not the exact one (ret_20d, volume_sma_20*1.3). *)
(***************************************************************************)
MIN_ENTRY_SCORE == 60
HIGH_CONFIDENCE_THRESHOLD == 85
MEDIUM_CONFIDENCE_THRESHOLD == 70
STOCK_STOP_LOSS_PCT == 8            \* 0.08
STOCK_PROFIT_TARGET_MIN == 15       \* 0.15

\* An indicator that is NaN, or absent from the row.
NaN == -9999

\* pd.notna
notna(x) == x # NaN

NoSignal == [symbol |-> "None"]

\* The number of elements of a sequence equal to x: list.count(x).
Count(seq, x) == Cardinality({i \in DOMAIN seq : seq[i] = x})

\* df: the last row of the indicator frame with len(df) as rows and the
\* close of row -20 as close_20.
technical_score(df, latest, price) ==
    LET sma == IF notna(latest.sma_50) /\ notna(latest.sma_200)
               THEN IF price > latest.sma_50 /\ latest.sma_50 > latest.sma_200
                    THEN <<10, 1, 0>>
                    ELSE IF price < latest.sma_50 /\ latest.sma_50 < latest.sma_200
                    THEN <<8, 0, 1>>
                    ELSE IF price > latest.sma_50 THEN <<5, 1, 0>>
                    ELSE <<0, 0, 0>>
               ELSE <<0, 0, 0>>
        rsi == IF notna(latest.rsi)
               THEN IF 50 < latest.rsi /\ latest.rsi < 70 THEN <<10, 1, 0>>
                    ELSE IF latest.rsi <= 30 THEN <<8, 1, 0>>
                    ELSE IF latest.rsi >= 75 THEN <<6, 0, 1>>
                    ELSE IF 30 < latest.rsi /\ latest.rsi <= 50 THEN <<4, 0, 1>>
                    ELSE <<0, 0, 0>>
               ELSE <<0, 0, 0>>
        macd == IF notna(latest.macd) /\ notna(latest.macd_signal)
                THEN IF latest.macd - latest.macd_signal > 0
                     THEN <<10, 1, 0>> ELSE <<5, 0, 1>>
                ELSE <<0, 0, 0>>
        volume == IF notna(latest.volume_sma_20)
                     /\ latest.volume * 10 > latest.volume_sma_20 * 13
                  THEN <<5, 0, 0>> ELSE <<0, 0, 0>>
        momentum == IF df.rows >= 20
                    THEN IF (price - df.close_20) * 100 > 5 * df.close_20
                         THEN <<5, 1, 0>>
                         ELSE IF (price - df.close_20) * 100 < (0 - 5) * df.close_20
                         THEN <<3, 0, 1>>
                         ELSE <<0, 0, 0>>
                    ELSE <<0, 0, 0>>
        parts == <<sma, rsi, macd, volume, momentum>>
        score == sma[1] + rsi[1] + macd[1] + volume[1] + momentum[1]
        bull_pts == sma[2] + rsi[2] + macd[2] + volume[2] + momentum[2]
        bear_pts == sma[3] + rsi[3] + macd[3] + volume[3] + momentum[3]
    IN  [score |-> score,
         direction |-> IF bull_pts >= bear_pts THEN "BULLISH" ELSE "BEARISH"]

\* sent: what sentiment_analyzer.get_stock_sentiment returns, or a failure.
sentiment_score(sent) ==
    IF sent.raises THEN [score |-> 12, direction |-> "NEUTRAL", raw |-> 0]
    ELSE IF sent.score > 30 THEN [score |-> 25, direction |-> "BULLISH", raw |-> sent.score]
    ELSE IF sent.score > 10 THEN [score |-> 18, direction |-> "BULLISH", raw |-> sent.score]
    ELSE IF sent.score > -10 THEN [score |-> 12, direction |-> "NEUTRAL", raw |-> sent.score]
    ELSE IF sent.score > -30 THEN [score |-> 8, direction |-> "BEARISH", raw |-> sent.score]
    ELSE [score |-> 3, direction |-> "BEARISH", raw |-> sent.score]

\* pred: what ml_predictor.predict returns, or a failure.
ml_score(pred) ==
    IF pred.raises THEN [score |-> 12, direction |-> "NEUTRAL", prob |-> 50]
    ELSE IF pred.model_accuracy < 48
    THEN [score |-> 12, direction |-> "NEUTRAL", prob |-> pred.probability]
    ELSE IF pred.probability >= 60
    THEN [score |-> 22, direction |-> "BULLISH", prob |-> pred.probability]
    ELSE IF pred.probability >= 52
    THEN [score |-> 16, direction |-> "BULLISH", prob |-> pred.probability]
    ELSE IF pred.probability >= 48
    THEN [score |-> 12, direction |-> "NEUTRAL", prob |-> pred.probability]
    ELSE IF pred.probability >= 40
    THEN [score |-> 16, direction |-> "BEARISH", prob |-> pred.probability]
    ELSE [score |-> 22, direction |-> "BEARISH", prob |-> pred.probability]

\* An adjustment that also penalises bearish technicals in a BULL regime.
regime_adjustment_bull_drag(regime, tech_dir) ==
    IF regime = "BULL" THEN (IF tech_dir = "BULLISH" THEN 10 ELSE 0 - 3)
    ELSE IF regime = "BEAR" THEN (IF tech_dir = "BEARISH" THEN 8 ELSE 0 - 5)
    ELSE 0

regime_adjustment(regime, tech_dir) ==
    IF regime = "BULL" THEN (IF tech_dir = "BULLISH" THEN 10 ELSE 3)
    ELSE IF regime = "BEAR" THEN (IF tech_dir = "BEARISH" THEN 8 ELSE 0 - 5)
    ELSE 0

\* A composite that counts the technical score twice and is not clamped.
composite_unclamped(tech_score, sent_score, ml_score_, regime_adj) ==
    2 * tech_score + sent_score + ml_score_ + regime_adj

\* raw_score and score of _analyze_symbol.
composite(tech_score, sent_score, ml_score_, regime_adj) ==
    LET raw_score == tech_score + sent_score + ml_score_ + regime_adj
    IN  Max(0, Min(100, raw_score))

confidence_of(score) ==
    IF score >= HIGH_CONFIDENCE_THRESHOLD THEN "HIGH"
    ELSE IF score >= MEDIUM_CONFIDENCE_THRESHOLD THEN "MEDIUM"
    ELSE "LOW"

\* A vote in which a tie goes to BEARISH outside a BULL regime.
vote_tie_bearish(directions, regime) ==
    LET bull_votes == Count(directions, "BULLISH")
        bear_votes == Count(directions, "BEARISH")
    IN  IF bull_votes > bear_votes \/ (bull_votes = bear_votes /\ regime = "BULL")
        THEN [direction |-> "BULLISH", signal_type |-> "BUY"]
        ELSE [direction |-> "BEARISH", signal_type |-> "SELL"]

\* direction and signal_type of _analyze_symbol, from the majority vote.
vote(directions, regime) ==
    LET bull_votes == Count(directions, "BULLISH")
        bear_votes == Count(directions, "BEARISH")
    IN  IF bull_votes > bear_votes
        THEN [direction |-> "BULLISH", signal_type |-> "BUY"]
        ELSE IF bear_votes > bull_votes
        THEN [direction |-> "BEARISH", signal_type |-> "SELL"]
        ELSE LET direction == IF regime = "BULL" THEN "BULLISH"
                              ELSE IF regime = "BEAR" THEN "BEARISH"
                              ELSE "BULLISH"
             IN  [direction |-> direction,
                  signal_type |-> IF direction = "BULLISH" THEN "BUY" ELSE "SELL"]

\* What market_data.get_historical_data returns when it has no bars (None),
\* and a call of it that raises.
NoFrame == [rows |-> None, raises |-> FALSE]

FrameFails == [rows |-> None, raises |-> TRUE]

\* data: the frame, the sentiment and the prediction the collaborators
\* return for the symbol.  The result carries the composite score (None
\* when the frame is too short for one) and what each scorer returned
\* beside the signal returned.
analyze_symbol(symbol, regime, data) ==
    IF data.df \in {FrameFails, NoFrame} \/ data.df.rows < 50
    THEN [score |-> None, signal |-> NoSignal]
    ELSE LET price == data.df.close
             tech == technical_score(data.df, data.df, price)
             sent == sentiment_score(data.sent)
             ml == ml_score(data.pred)
             regime_adj == regime_adjustment(regime, tech.direction)
             score == composite(tech.score, sent.score, ml.score, regime_adj)
             directions == <<tech.direction, sent.direction, ml.direction>>
             voted == vote(directions, regime)
             direction == voted.direction
             bullish == direction = "BULLISH"
         IN  [score |-> score, tech |-> tech, sent |-> sent, ml |-> ml,
              regime_adj |-> regime_adj,
              signal |->
                 IF score < MIN_ENTRY_SCORE THEN NoSignal
                 ELSE [symbol |-> symbol,
                       signal_type |-> voted.signal_type,
                       direction |-> direction,
                       score |-> score,
                       confidence |-> confidence_of(score),
                       current_price |-> price,
                       \* in cents
                       suggested_stop |->
                           IF bullish THEN price * (100 - STOCK_STOP_LOSS_PCT)
                           ELSE price * (100 + STOCK_STOP_LOSS_PCT),
                       suggested_target |->
                           IF bullish THEN price * (100 + STOCK_PROFIT_TARGET_MIN)
                           ELSE price * (100 - STOCK_PROFIT_TARGET_MIN),
                       sentiment_score |-> sent.raw,
                       ml_probability |-> ml.prob,
                       market_regime |-> regime]]

\* A descending sort that puts a signal before those of equal score.
RECURSIVE SortByScore_ties_reversed(_)
SortByScore_ties_reversed(signals) ==
    IF signals = <<>> THEN <<>>
    ELSE LET n == Len(signals)
             x == signals[n]
             sorted == SortByScore_ties_reversed(SubSeq(signals, 1, n - 1))
             k == Cardinality({i \in DOMAIN sorted : sorted[i].score > x.score})
         IN  SubSeq(sorted, 1, k) \o <<x>> \o SubSeq(sorted, k + 1, Len(sorted))

\* list.sort(key=score, reverse=True): descending and stable.
RECURSIVE SortByScore(_)
SortByScore(signals) ==
    IF signals = <<>> THEN <<>>
    ELSE LET n == Len(signals)
             x == signals[n]
             sorted == SortByScore(SubSeq(signals, 1, n - 1))
             k == Cardinality({i \in DOMAIN sorted : sorted[i].score >= x.score})
         IN  SubSeq(sorted, 1, k) \o <<x>> \o SubSeq(sorted, k + 1, Len(sorted))

\* A loop that ends at the first symbol without an analysis.
RECURSIVE Analyzed_ends_at_failure(_, _)
Analyzed_ends_at_failure(universe, market) ==
    IF universe = <<>> THEN <<>>
    ELSE LET one == analyze_symbol(Head(universe), market.regime,
                                   market.data[Head(universe)])
             rest == Analyzed_ends_at_failure(Tail(universe), market)
         IN  IF one.score = None THEN <<>>
             ELSE IF one.signal # NoSignal /\ one.signal.score >= MIN_ENTRY_SCORE
             THEN <<one.signal>> \o rest ELSE rest

\* market: the regime of the cached market sentiment and, per symbol, the
\* data of analyze_symbol.
RECURSIVE Analyzed(_, _)
Analyzed(universe, market) ==
    IF universe = <<>> THEN <<>>
    ELSE LET signal == analyze_symbol(Head(universe), market.regime,
                                      market.data[Head(universe)]).signal
             rest == Analyzed(Tail(universe), market)
         IN  IF signal # NoSignal /\ signal.score >= MIN_ENTRY_SCORE
             THEN <<signal>> \o rest ELSE rest

scan_for_signals(universe, market) == SortByScore(Analyzed(universe, market))

(***************************************************************************)
(* One analysis of one symbol, over every combination of the inputs        *)
(***************************************************************************)
\* (sma_50, sma_200) around a close of 100: absent, price above both in
\* order, below both in order, above the 50-day only, none of these.
SmaPairs == {<<NaN, NaN>>, <<90, 80>>, <<110, 120>>, <<90, 120>>, <<110, 80>>}

\* rsi: absent, oversold, weak, momentum zone, the unscored band, overbought.
RsiValues == {NaN, 30, 50, 60, 70, 75}

\* macd against a signal line at 0.
MacdValues == {NaN, 0, 1}

\* (volume, volume_sma_20)
VolumePairs == {<<100, NaN>>, <<100, 100>>, <<140, 100>>}

\* The close twenty rows back: an 11 % rise, flat, a 9 % decline.
Close20Values == {90, 100, 110}

Frame(rows, close_20, sma, rsi, macd, volume) ==
    [rows |-> rows, close |-> 100, close_20 |-> close_20, sma_50 |-> sma[1],
     sma_200 |-> sma[2], rsi |-> rsi, macd |-> macd, macd_signal |-> 0,
     volume |-> volume[1], volume_sma_20 |-> volume[2]]

\* Frames of 60 rows, and one that is a row short of an analysis.
Frames ==
    {Frame(60, c, s, r, md, v) :
        c \in Close20Values, s \in SmaPairs, r \in RsiValues, md \in MacdValues,
        v \in VolumePairs}
    \cup {Frame(49, 90, <<90, 80>>, 60, 1, <<140, 100>>)}

\* A failure, and a score on each side of every band edge.
Sentiments ==
    {[raises |-> TRUE, score |-> 0]}
    \cup {[raises |-> FALSE, score |-> x] : x \in {-30, -10, 10, 30, 31}}

\* A failure, a model below the accuracy floor, and a probability in each band.
Predictions ==
    {[raises |-> TRUE, probability |-> 50, model_accuracy |-> 50],
     [raises |-> FALSE, probability |-> 60, model_accuracy |-> 47]}
    \cup {[raises |-> FALSE, probability |-> q, model_accuracy |-> 48] :
             q \in {39, 40, 48, 52, 60}}

Regimes == {"BULL", "BEAR", "NEUTRAL"}

InitScore ==
    /\ InitRiskManager
    /\ opt = Idle
    /\ bot = Idle
    /\ broker = Idle
    /\ scan \in {[pc |-> "ready", symbol |-> "AAPL", regime |-> g,
                  data |-> [df |-> f, sent |-> s, pred |-> q]] :
                    g \in Regimes, f \in Frames, s \in Sentiments, q \in Predictions}

AnalyzeSymbol ==
    /\ scan.pc = "ready"
    /\ scan' = [pc |-> "done", symbol |-> scan.symbol, regime |-> scan.regime,
                data |-> scan.data,
                result |-> analyze_symbol(scan.symbol, scan.regime, scan.data)]
    /\ UNCHANGED <<rm, today, ret, tripped_on, opt, bot, broker>>

NextScore == AnalyzeSymbol

SpecScore == InitScore /\ [][NextScore]_vars

\* C10: whatever the technical snapshot, the sentiment value, the model
\* probability and accuracy and the market regime, the composite score of
\* an analysed symbol lies in [0, 100].
C10_CompositeInRange ==
    scan.pc = "done" /\ scan.result.score # None =>
        scan.result.score >= 0 /\ scan.result.score <= 100

\* The highest composite: every technical point, very positive sentiment,
\* a strong model call and the boost of a BULL regime.
C10_Witness ==
    /\ scan.pc = "done"
    /\ scan.regime = "BULL"
    /\ technical_score(scan.data.df, scan.data.df, 100).score = 40
    /\ scan.data.sent.score = 31
    /\ scan.data.pred.probability = 60
    /\ scan.data.pred.model_accuracy = 48
    /\ scan.result.score = 97

\* The directions the three scorers give for the analysed inputs.
ScorerDirections ==
    <<technical_score(scan.data.df, scan.data.df, scan.data.df.close).direction,
      sentiment_score(scan.data.sent).direction,
      ml_score(scan.data.pred).direction>>

\* The number of the scorers voting d.
Votes(d) == Cardinality({i \in 1..3 : ScorerDirections[i] = d})

\* C11: the direction of a returned signal is the strict majority of the
\* BULLISH and BEARISH votes of the technical, sentiment and model scorers,
\* NEUTRAL counting for neither; with equal counts it is BEARISH in a BEAR
\* regime and BULLISH in every other; signal_type is BUY exactly for
\* BULLISH and SELL exactly for BEARISH.
C11_MajorityDirection ==
    scan.pc = "done" /\ scan.result.signal # NoSignal =>
        LET sig == scan.result.signal
        IN  /\ sig.direction \in {"BULLISH", "BEARISH"}
            /\ Votes("BULLISH") > Votes("BEARISH") => sig.direction = "BULLISH"
            /\ Votes("BEARISH") > Votes("BULLISH") => sig.direction = "BEARISH"
            /\ Votes("BULLISH") = Votes("BEARISH") =>
                   sig.direction = IF scan.regime = "BEAR" THEN "BEARISH" ELSE "BULLISH"
            /\ sig.signal_type = "BUY" <=> sig.direction = "BULLISH"
            /\ sig.signal_type = "SELL" <=> sig.direction = "BEARISH"

\* Technical BULLISH, sentiment NEUTRAL, model BEARISH in a NEUTRAL regime:
\* one vote each way, and a BULLISH BUY signal.
C11_Witness ==
    /\ scan.pc = "done"
    /\ scan.regime = "NEUTRAL"
    /\ ScorerDirections = <<"BULLISH", "NEUTRAL", "BEARISH">>
    /\ scan.result.signal # NoSignal
    /\ scan.result.signal.direction = "BULLISH"
    /\ scan.result.signal.signal_type = "BUY"

\* The direction on the other side of 0.5.
Mirrored(direction) ==
    IF direction = "BULLISH" THEN "BEARISH"
    ELSE IF direction = "BEARISH" THEN "BULLISH"
    ELSE direction

\* C21: with the model accuracy at or over the floor, _ml_score gives the
\* same score at an up-probability p and at 1 - p, the band edges included,
\* with the directions mirrored; with the accuracy under the floor it gives
\* NEUTRAL and the score 12 at every p.
C21_ModelScoreSymmetric ==
    scan.pc = "done" /\ scan.result.score # None /\ ~scan.data.pred.raises =>
        LET pred == scan.data.pred
            at_mirror == ml_score([pred EXCEPT !.probability = 100 - pred.probability])
        IN  IF pred.model_accuracy >= 48
            THEN /\ scan.result.ml.score = at_mirror.score
                 /\ scan.result.ml.direction = Mirrored(at_mirror.direction)
            ELSE /\ scan.result.ml.score = 12
                 /\ scan.result.ml.direction = "NEUTRAL"

\* C26: in every analysis the technical score lies in 0..40, the sentiment
\* score and the model score in 0..25 and the regime adjustment in -10..10;
\* the adjustment is 0 in a regime other than BULL and BEAR, positive when
\* the technical direction agrees with a BULL or BEAR regime, and negative
\* only when a BULLISH technical direction meets a BEAR regime.
C26_ComponentRanges ==
    scan.pc = "done" /\ scan.result.score # None =>
        LET r == scan.result
            agrees == \/ scan.regime = "BULL" /\ r.tech.direction = "BULLISH"
                      \/ scan.regime = "BEAR" /\ r.tech.direction = "BEARISH"
        IN  /\ r.tech.score \in 0..40
            /\ r.sent.score \in 0..25
            /\ r.ml.score \in 0..25
            /\ r.regime_adj \in -10..10
            /\ scan.regime \notin {"BULL", "BEAR"} => r.regime_adj = 0
            /\ agrees => r.regime_adj > 0
            /\ r.regime_adj < 0 => scan.regime = "BEAR" /\ r.tech.direction = "BULLISH"

\* Bullish technicals at the full 40 points in a BEAR regime: the drag.
C26_Witness ==
    /\ scan.pc = "done" /\ scan.result.score # None
    /\ scan.regime = "BEAR"
    /\ scan.result.tech = [score |-> 40, direction |-> "BULLISH"]
    /\ scan.result.regime_adj < 0

\* Bearish technicals in a BULL regime: a positive adjustment all the same.
C26_WitnessBull ==
    /\ scan.pc = "done" /\ scan.result.score # None
    /\ scan.regime = "BULL"
    /\ scan.result.tech.direction = "BEARISH"
    /\ scan.result.regime_adj > 0

(***************************************************************************)
(* The cache of the market sentiment, over scans at different times        *)
(***************************************************************************)
\* timedelta.seconds: the seconds of a non-negative span of time left over
\* after its whole days.
SecondsInDay == 86400

seconds(delta) == delta % SecondsInDay

\* cache: _market_sentiment (its regime) and _market_sentiment_ts, in seconds.
\* fresh: what sentiment_analyzer.get_market_sentiment returns at this time.
\* fetches counts the calls of it.
refresh_market_sentiment(cache, now, fresh) ==
    IF cache.market_sentiment_ts # None /\ seconds(now - cache.market_sentiment_ts) < 300
    THEN [cache |-> cache, fetches |-> 0]
    ELSE [cache |-> [market_sentiment |-> fresh, market_sentiment_ts |-> now],
          fetches |-> 1]

\* The waits between scans one behaviour runs through.
MaxTicks == 4

\* Time between two scans: under the window, the window, a day.
Advances == {100, 300, SecondsInDay}

NoCache == [market_sentiment |-> "None", market_sentiment_ts |-> None]

NoScan == [at |-> None]

InitRegime ==
    /\ InitRiskManager
    /\ opt = Idle
    /\ bot = Idle
    /\ broker = Idle
    /\ scan = [pc |-> "clock", now |-> 0, ticks |-> 0, cache |-> NoCache, last |-> NoScan]

\* datetime.now() moves on between two scans.
Tick(d) ==
    /\ scan.pc = "clock"
    /\ scan.ticks < MaxTicks
    /\ scan' = [scan EXCEPT !.now = @ + d, !.ticks = @ + 1]
    /\ UNCHANGED <<rm, today, ret, tripped_on, opt, bot, broker>>

\* The head of scan_for_signals: the refresh and the regime the scan uses.
\* last keeps the time of the scan, the timestamp it found, the calls of
\* get_market_sentiment it made and the regime it went on with.
RefreshRegime(fresh) ==
    /\ scan.pc = "clock"
    /\ LET r == refresh_market_sentiment(scan.cache, scan.now, fresh)
       IN  scan' = [scan EXCEPT
                      !.cache = r.cache,
                      !.last = [at |-> scan.now, had |-> scan.cache.market_sentiment_ts,
                                fetches |-> r.fetches,
                                regime |-> r.cache.market_sentiment]]
    /\ UNCHANGED <<rm, today, ret, tripped_on, opt, bot, broker>>

NextRegime ==
    \/ \E d \in Advances : Tick(d)
    \/ \E fresh \in Regimes : RefreshRegime(fresh)

SpecRegime == InitRegime /\ [][NextRegime]_vars

\* C29: a scan fetches the market regime exactly when none is cached or the
\* cached one was fetched 300 or more seconds before the scan, a span of
\* more than 24 hours included; otherwise it makes no fetch.
C29_RefetchAfterWindow ==
    scan.pc = "clock" /\ scan.last # NoScan =>
        LET stale == scan.last.had = None \/ scan.last.at - scan.last.had >= 300
        IN  scan.last.fetches = IF stale THEN 1 ELSE 0

(***************************************************************************)
(* OptionsDataFetcher and OptionsStrategy                                  *)
(*                                                                         *)
(* chain: what the market offers per symbol, as the cost of one contract   *)
(* (premium * 100, in dollars) of the call, the put and the bull call      *)
(* spread the fetcher would select, None where it finds nothing.           *)
(***************************************************************************)
NoPick == [strategy |-> "None"]

\* A price slot of a chain whose lookup raises, and what the lookup and the
\* builder around it then yield: the exception.
Fails == -2

Raised == [strategy |-> "raise"]

Failed == [symbol |-> "raise"]

\* The selected contract priced against the budget: the tail of
\* _pick_option and of find_bull_call_spread.
priced(strategy, option_type, cost_per_contract, underlying, max_budget) ==
    LET qty == Max(1, max_budget \div cost_per_contract)
    IN  [strategy |-> strategy, option_type |-> option_type,
         cost_per_contract |-> cost_per_contract, suggested_qty |-> qty,
         total_cost |-> cost_per_contract * qty, underlying_price |-> underlying]

find_best_call(chain, symbol, max_budget) ==
    IF chain[symbol].call = Fails THEN Raised
    ELSE IF chain[symbol].call = None THEN NoPick
    ELSE priced("long_call", "CALL", chain[symbol].call,
                chain[symbol].underlying_price, max_budget)

find_best_put(chain, symbol, max_budget) ==
    IF chain[symbol].put = Fails THEN Raised
    ELSE IF chain[symbol].put = None THEN NoPick
    ELSE priced("long_put", "PUT", chain[symbol].put,
                chain[symbol].underlying_price, max_budget)

find_bull_call_spread(chain, symbol, max_budget) ==
    IF chain[symbol].spread = Fails THEN Raised
    ELSE IF chain[symbol].spread = None THEN NoPick
    ELSE priced("bull_call_spread", "SPREAD", chain[symbol].spread,
                chain[symbol].underlying_price, max_budget)

\* A call on options_data, as the strategy issues it.
Request(fn, symbol, max_budget) == [fn |-> fn, symbol |-> symbol, max_budget |-> max_budget]

confidence(score) ==
    IF score >= HIGH_CONFIDENCE_THRESHOLD THEN "HIGH"
    ELSE IF score >= MEDIUM_CONFIDENCE_THRESHOLD THEN "MEDIUM"
    ELSE "LOW"

\* The signal a builder makes of a pick.
OptionSignal(symbol, signal_type, strategy, score, pick) ==
    IF pick = Raised THEN Failed
    ELSE IF pick = NoPick THEN NoSignal
    ELSE [symbol |-> symbol, signal_type |-> signal_type, asset_type |-> "OPTION",
          strategy |-> strategy, score |-> score, confidence |-> confidence(score),
          option_type |-> pick.option_type,
          cost_per_contract |-> pick.cost_per_contract,
          suggested_qty |-> pick.suggested_qty, total_cost |-> pick.total_cost,
          underlying_price |-> pick.underlying_price]

\* Each builder returns its signal and the requests it issued.
long_call_signal(chain, symbol, score, budget) ==
    [requests |-> <<Request("find_best_call", symbol, budget)>>,
     signal |-> OptionSignal(symbol, "BUY_CALL", "options_long_call", score,
                             find_best_call(chain, symbol, budget))]

long_put_signal(chain, symbol, score, budget) ==
    [requests |-> <<Request("find_best_put", symbol, budget)>>,
     signal |-> OptionSignal(symbol, "BUY_PUT", "options_long_put", score,
                             find_best_put(chain, symbol, budget))]

spread_signal(chain, symbol, score, budget) ==
    [requests |-> <<Request("find_bull_call_spread", symbol, budget)>>,
     signal |-> OptionSignal(symbol, "BUY_SPREAD", "options_bull_spread", score,
                             find_bull_call_spread(chain, symbol, budget))]

\* A loop body whose fallback long call is given twice the cap.
signal_for_fallback_doubled(chain, sig, max_per_trade) ==
    LET symbol == sig.symbol
        direction == Get(sig, "direction", "BULLISH")
        score == Get(sig, "score", 0)
        conf == Get(sig, "confidence", "LOW")
        spread == spread_signal(chain, symbol, score, max_per_trade)
        call == long_call_signal(chain, symbol, score, max_per_trade * 2)
    IN  IF score < MIN_ENTRY_SCORE THEN [requests |-> <<>>, signal |-> NoSignal]
        ELSE IF direction = "BULLISH"
        THEN IF conf = "HIGH" /\ score >= HIGH_CONFIDENCE_THRESHOLD
             THEN long_call_signal(chain, symbol, score, max_per_trade)
             ELSE IF spread.signal # NoSignal THEN spread
             ELSE [requests |-> spread.requests \o call.requests, signal |-> call.signal]
        ELSE IF direction = "BEARISH"
        THEN long_put_signal(chain, symbol, score, max_per_trade)
        ELSE [requests |-> <<>>, signal |-> NoSignal]

\* A loop body without the entry-score test.
signal_for_no_entry_floor(chain, sig, max_per_trade) ==
    LET symbol == sig.symbol
        direction == Get(sig, "direction", "BULLISH")
        score == Get(sig, "score", 0)
        conf == Get(sig, "confidence", "LOW")
        spread == spread_signal(chain, symbol, score, max_per_trade)
        call == long_call_signal(chain, symbol, score, max_per_trade)
    IN  IF direction = "BULLISH"
        THEN IF conf = "HIGH" /\ score >= HIGH_CONFIDENCE_THRESHOLD
             THEN call
             ELSE IF spread.signal # NoSignal THEN spread
             ELSE [requests |-> spread.requests \o call.requests, signal |-> call.signal]
        ELSE IF direction = "BEARISH"
        THEN long_put_signal(chain, symbol, score, max_per_trade)
        ELSE [requests |-> <<>>, signal |-> NoSignal]

\* A loop body that tries the spread first for every bullish signal.
signal_for_spread_first(chain, sig, max_per_trade) ==
    LET symbol == sig.symbol
        direction == Get(sig, "direction", "BULLISH")
        score == Get(sig, "score", 0)
        spread == spread_signal(chain, symbol, score, max_per_trade)
        call == long_call_signal(chain, symbol, score, max_per_trade)
    IN  IF score < MIN_ENTRY_SCORE THEN [requests |-> <<>>, signal |-> NoSignal]
        ELSE IF direction = "BULLISH"
        THEN IF spread.signal # NoSignal THEN spread
             ELSE [requests |-> spread.requests \o call.requests, signal |-> call.signal]
        ELSE IF direction = "BEARISH"
        THEN long_put_signal(chain, symbol, score, max_per_trade)
        ELSE [requests |-> <<>>, signal |-> NoSignal]

\* The body of the loop of generate_options_signals for one stock signal.
signal_for(chain, sig, max_per_trade) ==
    LET symbol == sig.symbol
        direction == Get(sig, "direction", "BULLISH")
        score == Get(sig, "score", 0)
        conf == Get(sig, "confidence", "LOW")
        spread == spread_signal(chain, symbol, score, max_per_trade)
        call == long_call_signal(chain, symbol, score, max_per_trade)
    IN  IF score < MIN_ENTRY_SCORE THEN [requests |-> <<>>, signal |-> NoSignal]
        ELSE IF direction = "BULLISH"
        THEN IF conf = "HIGH" /\ score >= HIGH_CONFIDENCE_THRESHOLD
             THEN call
             ELSE IF spread.signal # NoSignal THEN spread
             ELSE [requests |-> spread.requests \o call.requests, signal |-> call.signal]
        ELSE IF direction = "BEARISH"
        THEN long_put_signal(chain, symbol, score, max_per_trade)
        ELSE [requests |-> <<>>, signal |-> NoSignal]

\* The loop over the stock signals: the signals appended and the requests
\* issued, in order.  A body that raised appends nothing and the loop goes on.
RECURSIVE SignalsFor(_, _, _)
SignalsFor(chain, stock_signals, max_per_trade) ==
    IF stock_signals = <<>> THEN [requests |-> <<>>, signals |-> <<>>]
    ELSE LET one == signal_for(chain, Head(stock_signals), max_per_trade)
             rest == SignalsFor(chain, Tail(stock_signals), max_per_trade)
         IN  [requests |-> one.requests \o rest.requests,
              signals |-> IF one.signal \notin {NoSignal, Failed}
                          THEN <<one.signal>> \o rest.signals ELSE rest.signals]

\* options_budget is a multiple of 10 dollars, for which the binary64
\* product options_budget * 0.05 * 2 is the exact tenth.
generate_options_signals(chain, stock_signals, options_budget) ==
    IF stock_signals = <<>> THEN [requests |-> <<>>, signals |-> <<>>]
    ELSE LET max_per_trade == (options_budget * MAX_POSITION_SIZE_OPTION * 2) \div 100
             made == SignalsFor(chain, stock_signals, max_per_trade)
         IN  [requests |-> made.requests, signals |-> SortByScore(made.signals)]

(***************************************************************************)
(* One generate_options_signals call, over stock signals, budgets, chains  *)
(***************************************************************************)
\* The longest list of stock signals passed.
MaxSignals == 3

StockSignal(symbol, kind) ==
    [symbol |-> symbol, direction |-> kind[1], score |-> kind[2],
     confidence |-> kind[3], current_price |-> 100]

\* (direction, score, confidence): a high-conviction bullish signal, bullish
\* signals that take the spread route (by confidence, by score, by both),
\* one below the entry score, a bearish one and one without direction.
SignalKinds ==
    {<<"BULLISH", 90, "HIGH">>, <<"BULLISH", 90, "MEDIUM">>, <<"BULLISH", 70, "HIGH">>,
     <<"BULLISH", 70, "MEDIUM">>, <<"BULLISH", 55, "LOW">>, <<"BEARISH", 65, "LOW">>,
     <<"NEUTRAL", 65, "LOW">>}

\* The symbol at each place of a list.
SymbolAt(i) == IF i % 2 = 1 THEN "AAPL" ELSE "MSFT"

StockSignalLists ==
    UNION {{[i \in 1..n |-> StockSignal(SymbolAt(i), k[i])] : k \in [1..n -> SignalKinds]} :
              n \in 0..MaxSignals}

\* Per symbol: nothing on offer; every contract at 300; no spread but a call
\* and a put; no call but a put and a spread; contracts dearer than a 1000
\* budget; a spread lookup that raises beside a call and a put.
ChainOf(call, put, spread) ==
    [call |-> call, put |-> put, spread |-> spread, underlying_price |-> 100]

ChainKinds ==
    {ChainOf(None, None, None), ChainOf(300, 300, 300), ChainOf(300, 300, None),
     ChainOf(None, 300, 300), ChainOf(1500, 1500, 400), ChainOf(300, 300, Fails)}

Chains == [{"AAPL", "MSFT"} -> ChainKinds]

OptionsBudgets == {10000, 40000}

InitOptions ==
    /\ InitRiskManager
    /\ scan = Idle
    /\ bot = Idle
    /\ broker = Idle
    /\ opt \in {[pc |-> "ready", chain |-> c, stock_signals |-> l, options_budget |-> b] :
                   c \in Chains, l \in StockSignalLists, b \in OptionsBudgets}

GenerateOptionsSignals ==
    /\ opt.pc = "ready"
    /\ LET r == generate_options_signals(opt.chain, opt.stock_signals, opt.options_budget)
       IN  opt' = [pc |-> "done", chain |-> opt.chain, stock_signals |-> opt.stock_signals,
                   options_budget |-> opt.options_budget,
                   requests |-> r.requests, signals |-> r.signals]
    /\ UNCHANGED <<rm, today, ret, tripped_on, scan, bot, broker>>

NextOptions == GenerateOptionsSignals

SpecOptions == InitOptions /\ [][NextOptions]_vars

\* C9: every find_best_call, find_best_put and find_bull_call_spread request
\* of a generate_options_signals call carries max_budget =
\* options_budget * MAX_POSITION_SIZE_OPTION * 2 (1000 for a budget of
\* 10000), whatever signals came before it and on the fallback path too.
C9_RequestsWithinCap ==
    opt.pc = "done" =>
        \A i \in DOMAIN opt.requests :
            /\ opt.requests[i].fn \in {"find_best_call", "find_best_put",
                                       "find_bull_call_spread"}
            /\ opt.requests[i].max_budget * 100 =
                   opt.options_budget * MAX_POSITION_SIZE_OPTION * 2
            /\ opt.options_budget = 10000 => opt.requests[i].max_budget = 1000

\* A budget of 10000 and three signals, the last of which finds no spread
\* and falls back to a long call.
C9_Witness ==
    /\ opt.pc = "done"
    /\ opt.options_budget = 10000
    /\ Len(opt.stock_signals) = 3
    /\ Len(opt.requests) = 4
    /\ opt.requests[1].fn = "find_best_call"
    /\ opt.requests[2].fn = "find_best_put"
    /\ opt.requests[3] = Request("find_bull_call_spread", "AAPL", 1000)
    /\ opt.requests[4] = Request("find_best_call", "AAPL", 1000)

\* The lookups the table asks for one stock signal, in order.
TableLookups(sig) ==
    IF sig.score < MIN_ENTRY_SCORE THEN <<>>
    ELSE IF sig.direction = "BULLISH"
    THEN IF sig.confidence = "HIGH" /\ sig.score >= HIGH_CONFIDENCE_THRESHOLD
         THEN <<"find_best_call">>
         ELSE IF opt.chain[sig.symbol].spread # None
         THEN <<"find_bull_call_spread">>
         ELSE <<"find_bull_call_spread", "find_best_call">>
    ELSE IF sig.direction = "BEARISH" THEN <<"find_best_put">>
    ELSE <<>>

\* The option type the table yields for one stock signal, "none" if it
\* yields no signal.
TableYield(sig) ==
    LET lookups == TableLookups(sig)
        offer == opt.chain[sig.symbol]
    IN  IF lookups = <<>> THEN "none"
        ELSE IF lookups[Len(lookups)] = "find_best_call"
        THEN (IF offer.call \notin {None, Fails} THEN "CALL" ELSE "none")
        ELSE IF lookups[Len(lookups)] = "find_best_put"
        THEN (IF offer.put \notin {None, Fails} THEN "PUT" ELSE "none")
        ELSE (IF offer.spread # Fails THEN "SPREAD" ELSE "none")

\* The lookups of the first n stock signals, as (function, symbol) pairs.
RECURSIVE TableLookupsUpTo(_)
TableLookupsUpTo(n) ==
    IF n = 0 THEN <<>>
    ELSE TableLookupsUpTo(n - 1)
         \o [i \in DOMAIN TableLookups(opt.stock_signals[n]) |->
                <<TableLookups(opt.stock_signals[n])[i], opt.stock_signals[n].symbol>>]

\* C14: for each input signal at or over MIN_ENTRY_SCORE, a high-confidence
\* BULLISH signal at or over HIGH_CONFIDENCE_THRESHOLD asks for a long call
\* only; any other BULLISH signal asks for the spread and, only when there
\* is none, for a long call; a BEARISH signal asks for a long put only; any
\* other direction asks for nothing.  A signal whose last lookup finds
\* nothing yields no output, and every input yields at most one output.
C14_ConstructTable ==
    opt.pc = "done" =>
        /\ [i \in DOMAIN opt.requests |-> <<opt.requests[i].fn, opt.requests[i].symbol>>]
               = TableLookupsUpTo(Len(opt.stock_signals))
        /\ Len(opt.signals) <= Len(opt.stock_signals)
        /\ LET out == [i \in DOMAIN opt.signals |->
                          <<opt.signals[i].symbol, opt.signals[i].option_type,
                            opt.signals[i].score>>]
               table == [i \in DOMAIN opt.stock_signals |->
                            <<opt.stock_signals[i].symbol,
                              TableYield(opt.stock_signals[i]),
                              opt.stock_signals[i].score>>]
           IN  /\ \A i \in DOMAIN out : Count(out, out[i]) = Count(table, out[i])
               /\ \A i \in DOMAIN table :
                      table[i][2] # "none" => Count(out, table[i]) = Count(table, table[i])

\* A high-conviction signal whose call lookup finds nothing, a bullish
\* signal that falls back from the spread to the call, and a bearish one.
C14_Witness ==
    /\ opt.pc = "done"
    /\ Len(opt.stock_signals) = 3
    /\ opt.stock_signals[1].confidence = "HIGH" /\ opt.stock_signals[1].score = 90
    /\ opt.stock_signals[1].direction = "BULLISH"
    /\ opt.stock_signals[2].direction = "BULLISH" /\ opt.stock_signals[2].score = 70
    /\ opt.stock_signals[2].confidence = "HIGH"
    /\ opt.stock_signals[3].direction = "BEARISH"
    /\ opt.chain["AAPL"] = ChainOf(None, 300, 300)
    /\ opt.chain["MSFT"] = ChainOf(300, 300, None)
    /\ [i \in DOMAIN opt.requests |-> opt.requests[i].fn]
           = <<"find_best_call", "find_bull_call_spread", "find_best_call", "find_best_put">>
    /\ Len(opt.signals) = 2
    /\ opt.signals[1].option_type = "CALL"
    /\ opt.signals[2].option_type = "PUT"

\* C19: every signal of generate_options_signals(stock_signals,
\* options_budget) has a total_cost, cost_per_contract * suggested_qty, of
\* at most options_budget * MAX_POSITION_SIZE_OPTION * 2, whatever one
\* contract costs.
C19_TotalCostWithinCap ==
    opt.pc = "done" =>
        \A i \in DOMAIN opt.signals :
            /\ opt.signals[i].total_cost =
                   opt.signals[i].cost_per_contract * opt.signals[i].suggested_qty
            /\ opt.signals[i].total_cost * 100 <=
                   opt.options_budget * MAX_POSITION_SIZE_OPTION * 2

(***************************************************************************)
(* TradingBot, with the Portfolio it refreshes and the broker behind it    *)
(***************************************************************************)
STOCK_ALLOCATION == 50              \* 0.50
OPTIONS_ALLOCATION == 50            \* 0.50

\* The symbols momentum_strategy scans.
BotUniverse == <<"AAPL", "MSFT">>

BotSymbols == {"AAPL", "MSFT"}

\* broker.get_account(): None, or the account at a portfolio value.
NoAccount == [account |-> "None"]

Account(pv) == [portfolio_value |-> pv, buying_power |-> pv, long_market_value |-> 0]

\* broker.get_positions(): the scanned symbols held and the number of
\* positions in other symbols.
Positions(held, others) == [held |-> held, others |-> others]

\* len(positions)
NumPositions(positions) == Cardinality(positions.held) + positions.others

\* Portfolio.get_portfolio_value on the account the refresh returned.
get_portfolio_value(account_info) ==
    IF account_info = NoAccount THEN 0 ELSE Get(account_info, "portfolio_value", 0)

\* Portfolio.get_position_counts, get_position and has_position refresh an
\* empty position list first: the list they then read.
Refreshed(positions, broker_positions) ==
    IF NumPositions(positions) = 0 THEN broker_positions ELSE positions

get_position_counts(positions) ==
    Counts(NumPositions(positions), NumPositions(positions), 0)

has_position(positions, symbol) == symbol \in positions.held

\* The record of one trading-loop iteration: how its risk gates ended, the
\* calls it has made, in order, and the buy orders it has placed.
NewCycle == [gate |-> "none", calls |-> <<>>, orders |-> <<>>]

\* list[:n]
Take(seq, n) == SubSeq(seq, 1, Min(n, Len(seq)))

\* [s for s in signals if s.get("direction") == direction]
RECURSIVE Directed(_, _)
Directed(signals, direction) ==
    IF signals = <<>> THEN <<>>
    ELSE IF Get(Head(signals), "direction", "None") = direction
    THEN <<Head(signals)>> \o Directed(Tail(signals), direction)
    ELSE Directed(Tail(signals), direction)

\* reset_daily_limits, update_peak_equity and the two gates of
\* _trading_loop, for the account's portfolio value.
risk_gates(s, now, pv) ==
    LET s2 == update_peak_equity(reset_daily_limits(s, now, pv), pv)
        r1 == check_daily_loss_limit(s2, pv)
        r2 == check_max_drawdown(r1.rm, pv)
        first == <<"reset_daily_limits", "update_peak_equity", "check_daily_loss_limit">>
    IN  IF r1.outcome = "raise" THEN [rm |-> r1.rm, gate |-> "raise", calls |-> first]
        ELSE IF r1.outcome = "reject" THEN [rm |-> r1.rm, gate |-> "daily", calls |-> first]
        ELSE IF r2.outcome = "raise"
        THEN [rm |-> r2.rm, gate |-> "raise", calls |-> Append(first, "check_max_drawdown")]
        ELSE IF r2.outcome = "reject"
        THEN [rm |-> r2.rm, gate |-> "drawdown", calls |-> Append(first, "check_max_drawdown")]
        ELSE [rm |-> r2.rm, gate |-> "pass", calls |-> Append(first, "check_max_drawdown")]

\* A loop that takes a drawdown rejection like a daily-loss one: it returns
\* and runs again.
after_gates_drawdown_returns(gate) ==
    CASE gate = "pass" -> [pc |-> "monitor", is_running |-> TRUE]
      [] OTHER -> [pc |-> "loop", is_running |-> TRUE]

\* A loop that logs a daily-loss rejection and trades on.
after_gates_daily_advisory(gate) ==
    CASE gate \in {"pass", "daily"} -> [pc |-> "monitor", is_running |-> TRUE]
      [] gate = "drawdown" -> [pc |-> "stopped", is_running |-> FALSE]
      [] OTHER -> [pc |-> "loop", is_running |-> TRUE]

\* Where _trading_loop goes once the gates have ended: on to the monitoring,
\* back to start() (return, or an exception caught there), or out of the
\* loop with is_running cleared.
after_gates(gate) ==
    CASE gate = "pass" -> [pc |-> "monitor", is_running |-> TRUE]
      [] gate = "drawdown" -> [pc |-> "stopped", is_running |-> FALSE]
      [] OTHER -> [pc |-> "loop", is_running |-> TRUE]

\* The arguments of a validate_trade call of the bot: no sector data.
BuyOrder(symbol, qty, price, asset_type, acct, pos_counts) ==
    [symbol |-> symbol, action |-> "buy", quantity |-> qty, price |-> price,
     asset_type |-> asset_type, account_info |-> acct, current_positions |-> pos_counts,
     sector |-> NoSector, sector_exposure |-> NoExposure]

\* An order the broker accepted.
Placed(symbol, asset_type, qty, price) ==
    [symbol |-> symbol, asset_type |-> asset_type, quantity |-> qty, price |-> price]

\* The state of an execution loop: the budget left, the position counts,
\* the RiskState, the orders placed, and whether an exception left the loop.
Exec(budget, pos_counts, s) ==
    [budget |-> budget, pos_counts |-> pos_counts, rm |-> s, orders |-> <<>>,
     raised |-> FALSE]

\* One pass of the loop of _execute_stock_signals for sig: the state it
\* leaves, with next "continue", "break" or "raise".  accepted: the symbols
\* for which broker.place_limit_order returns an order.
stock_signal_pass(sig, st, acct, positions, accepted) ==
    LET symbol == sig.symbol
        max_pos == Min(st.budget, (acct.portfolio_value * MAX_POSITION_SIZE_STOCK) \div 100)
        price == sig.current_price
        qty == max_pos \div price
        v == validate_trade(st.rm, BuyOrder(symbol, qty, price, "stock", acct,
                                            st.pos_counts))
    IN  IF has_position(positions, symbol) THEN [st |-> st, next |-> "continue"]
        ELSE IF check_position_count(st.pos_counts).outcome # "allow"
        THEN [st |-> st, next |-> "break"]
        ELSE IF qty <= 0 THEN [st |-> st, next |-> "continue"]
        ELSE [st |-> [st EXCEPT
                         !.rm = v.rm,
                         !.budget = IF v.outcome = "allow" /\ symbol \in accepted
                                    THEN @ - qty * price ELSE @,
                         !.pos_counts = IF v.outcome = "allow" /\ symbol \in accepted
                                        THEN Counts(@.total + 1, @.stocks + 1, @.options)
                                        ELSE @,
                         !.orders = IF v.outcome = "allow" /\ symbol \in accepted
                                    THEN Append(@, Placed(symbol, "stock", qty, price))
                                    ELSE @],
              next |-> IF v.outcome = "raise" THEN "raise" ELSE "continue"]

RECURSIVE execute_stock_signals(_, _, _, _, _)
execute_stock_signals(signals, st, acct, positions, accepted) ==
    IF signals = <<>> THEN st
    ELSE LET pass == stock_signal_pass(Head(signals), st, acct, positions, accepted)
         IN  IF pass.next = "continue"
             THEN execute_stock_signals(Tail(signals), pass.st, acct, positions, accepted)
             ELSE [pass.st EXCEPT !.raised = pass.next = "raise"]

\* One pass of the loop of _execute_options_signals: option exposure is
\* simulated by a stock order worth the premium.
options_signal_pass(sig, st, acct, positions, accepted) ==
    LET symbol == sig.symbol
        total_cost == Get(sig, "total_cost", 0)
        price == Get(sig, "underlying_price", Get(sig, "current_price", 0))
        sim_qty == Max(1, total_cost \div price)
        v == validate_trade(st.rm, BuyOrder(symbol, sim_qty, price, "option", acct,
                                            st.pos_counts))
    IN  IF total_cost <= 0 \/ total_cost > st.budget THEN [st |-> st, next |-> "continue"]
        ELSE IF has_position(positions, symbol) THEN [st |-> st, next |-> "continue"]
        ELSE IF check_position_count(st.pos_counts).outcome # "allow"
        THEN [st |-> st, next |-> "break"]
        ELSE IF price <= 0 THEN [st |-> st, next |-> "continue"]
        ELSE [st |-> [st EXCEPT
                         !.rm = v.rm,
                         !.budget = IF v.outcome = "allow" /\ symbol \in accepted
                                    THEN @ - sim_qty * price ELSE @,
                         !.pos_counts = IF v.outcome = "allow" /\ symbol \in accepted
                                        THEN Counts(@.total + 1, @.stocks, @.options + 1)
                                        ELSE @,
                         !.orders = IF v.outcome = "allow" /\ symbol \in accepted
                                    THEN Append(@, Placed(symbol, "option", sim_qty, price))
                                    ELSE @],
              next |-> IF v.outcome = "raise" THEN "raise" ELSE "continue"]

RECURSIVE execute_options_signals(_, _, _, _, _)
execute_options_signals(signals, st, acct, positions, accepted) ==
    IF signals = <<>> THEN st
    ELSE LET pass == options_signal_pass(Head(signals), st, acct, positions, accepted)
         IN  IF pass.next = "continue"
             THEN execute_options_signals(Tail(signals), pass.st, acct, positions, accepted)
             ELSE [pass.st EXCEPT !.raised = pass.next = "raise"]

(***************************************************************************)
(* The bot's run: start(), then trading-loop iterations, against accounts, *)
(* markets, option chains and broker answers chosen by the environment     *)
(***************************************************************************)
\* Portfolio values the broker reports: 100000; 96500, a 3.5 % daily loss
\* from it; 60000, a 40 % drawdown from it; and an empty account.
BotEquities == {0, 60000, 96500, 100000}

Accounts == {NoAccount} \cup {Account(pv) : pv \in BotEquities}

\* The data behind a symbol's analysis: a composite of 87 (BULLISH, HIGH),
\* of 74 (BULLISH, MEDIUM), of 61 (BEARISH, LOW), and a frame too short.
StrongBull ==
    [df |-> Frame(60, 90, <<90, 80>>, 60, 1, <<140, 100>>),
     sent |-> [raises |-> FALSE, score |-> 31],
     pred |-> [raises |-> FALSE, probability |-> 60, model_accuracy |-> 48]]

MediumBull == [StrongBull EXCEPT !.sent = [raises |-> FALSE, score |-> 10]]

Bear ==
    [df |-> Frame(60, 110, <<110, 120>>, 75, 0, <<140, 100>>),
     sent |-> [raises |-> FALSE, score |-> 10],
     pred |-> [raises |-> FALSE, probability |-> 39, model_accuracy |-> 48]]

Short == [StrongBull EXCEPT !.df = Frame(49, 90, <<90, 80>>, 60, 1, <<140, 100>>)]

Market(aapl, msft) ==
    [regime |-> "NEUTRAL", data |-> [s \in BotSymbols |-> IF s = "AAPL" THEN aapl ELSE msft]]

BotMarkets == {Market(StrongBull, Bear), Market(MediumBull, StrongBull), Market(Short, Short)}

BotChains ==
    {[s \in BotSymbols |-> ChainOf(300, 300, 300)], [s \in BotSymbols |-> ChainOf(None, None, None)]}

\* Prices of a held position, in cents: the entry, and currents below the
\* stop, at the entry and above the target.
EntryPrice == 10000

CurrentPrices == {9000, 10000, 12000}

\* The set of elements of a sequence.
Range(seq) == {seq[i] : i \in DOMAIN seq}

InitBot ==
    /\ InitRiskManager
    /\ scan = Idle
    /\ opt = Idle
    /\ bot = [pc |-> "start", is_running |-> FALSE, account_info |-> NoAccount,
              positions |-> Positions({}, 0), signals |-> <<>>, cycle |-> NewCycle]
    /\ broker \in {[positions |-> Positions({}, n), pending |-> {}] :
                      n \in {0, MAX_STOCK_POSITIONS - 1}}

\* start() up to the loop: is_running set, then _initialize.
Start ==
    /\ bot.pc = "start"
    /\ \E acct \in Accounts :
          LET pv == get_portfolio_value(acct)
          IN  /\ rm' = update_peak_equity(reset_daily_limits(rm, today, pv), pv)
              /\ bot' = [bot EXCEPT !.pc = "loop", !.is_running = TRUE,
                                    !.account_info = acct,
                                    !.positions = broker.positions]
    /\ UNCHANGED <<today, ret, tripped_on, scan, opt, broker>>

\* An iteration of start()'s loop with the market closed: sleep.
MarketClosed ==
    /\ bot.pc = "loop"
    /\ bot.is_running
    /\ bot' = [bot EXCEPT !.cycle = [NewCycle EXCEPT !.gate = "closed"]]
    /\ UNCHANGED <<rm, today, ret, tripped_on, scan, opt, broker>>

\* _trading_loop from the refresh to the end of the risk gates.
TradingLoop ==
    /\ bot.pc = "loop"
    /\ bot.is_running
    /\ \E acct \in Accounts :
          LET g == IF acct = NoAccount
                   THEN [rm |-> rm, gate |-> "no_account", calls |-> <<>>]
                   ELSE risk_gates(rm, today, acct.portfolio_value)
              next == after_gates(g.gate)
          IN  /\ rm' = g.rm
              /\ tripped_on' = Tripped(rm, g.rm)
              /\ bot' = [bot EXCEPT !.pc = next.pc, !.is_running = next.is_running,
                                    !.account_info = acct,
                                    !.positions = broker.positions,
                                    !.signals = <<>>,
                                    !.cycle = [NewCycle EXCEPT !.gate = g.gate,
                                                               !.calls = g.calls]]
    /\ UNCHANGED <<today, ret, scan, opt, broker>>

\* _monitor_positions: every held position against its stop and target,
\* and _close_position for those to exit.
MonitorPositions ==
    /\ bot.pc = "monitor"
    /\ \E current \in [bot.positions.held -> CurrentPrices],
          closing \in SUBSET bot.positions.held :
          LET stop == (EntryPrice * (100 - STOCK_STOP_LOSS_PCT)) \div 100
              target == (EntryPrice * (100 + STOCK_PROFIT_TARGET_MIN)) \div 100
              exits == {s \in bot.positions.held :
                           should_exit_position(s, EntryPrice, current[s], "stock",
                                                stop, target).outcome = "exit"}
          IN  broker' = [broker EXCEPT !.positions.held = @ \ (exits \cap closing)]
    /\ bot' = [bot EXCEPT !.pc = "scan",
                          !.cycle.calls = Append(@, "monitor_positions")]
    /\ UNCHANGED <<rm, today, ret, tripped_on, scan, opt>>

\* momentum_strategy.scan_for_signals() and the split of its signals.
ScanForSignals ==
    /\ bot.pc = "scan"
    /\ \E market \in BotMarkets :
          LET signals == scan_for_signals(BotUniverse, market)
          IN  bot' = [bot EXCEPT !.pc = IF signals = <<>> THEN "metrics" ELSE "stocks",
                                 !.signals = signals,
                                 !.cycle.calls = Append(@, "scan_for_signals")]
    /\ UNCHANGED <<rm, today, ret, tripped_on, scan, opt, broker>>

\* Step 4a of _trading_loop.
ExecuteStockSignals ==
    /\ bot.pc = "stocks"
    /\ \E accepted \in SUBSET BotSymbols :
          LET acct == bot.account_info
              stock_budget == (acct.portfolio_value * STOCK_ALLOCATION) \div 100
              stock_room == Max(0, stock_budget - Get(acct, "long_market_value", 0))
              run == stock_room > MIN_POSITION_SIZE
              positions == IF run THEN Refreshed(bot.positions, broker.positions)
                           ELSE bot.positions
              st == IF run
                    THEN execute_stock_signals(
                             Take(Directed(bot.signals, "BULLISH"), 5),
                             Exec(stock_room, get_position_counts(positions), rm),
                             acct, positions, accepted)
                    ELSE Exec(stock_room, get_position_counts(positions), rm)
          IN  /\ rm' = st.rm
              /\ tripped_on' = Tripped(rm, st.rm)
              /\ bot' = [bot EXCEPT
                            !.pc = IF st.raised THEN "loop" ELSE "options",
                            !.positions = positions,
                            !.cycle.calls = IF run THEN Append(@, "execute_stock_signals")
                                            ELSE @,
                            !.cycle.orders = @ \o st.orders]
              /\ broker' = [broker EXCEPT
                               !.pending = @ \cup {o.symbol : o \in Range(st.orders)}]
    /\ UNCHANGED <<today, ret, scan, opt>>

\* Step 4b of _trading_loop.
ExecuteOptionsSignals ==
    /\ bot.pc = "options"
    /\ \E accepted \in SUBSET BotSymbols, chain \in BotChains :
          LET acct == bot.account_info
              options_budget == (acct.portfolio_value * OPTIONS_ALLOCATION) \div 100
              options_room == Max(0, options_budget - 0)
              run == options_room > MIN_POSITION_SIZE
              opt_signals == IF run
                             THEN generate_options_signals(chain, Take(bot.signals, 8),
                                                           options_room).signals
                             ELSE <<>>
              positions == IF opt_signals # <<>>
                           THEN Refreshed(bot.positions, broker.positions)
                           ELSE bot.positions
              st == execute_options_signals(
                        opt_signals, Exec(options_room, get_position_counts(positions), rm),
                        acct, positions, accepted)
          IN  /\ rm' = st.rm
              /\ tripped_on' = Tripped(rm, st.rm)
              /\ bot' = [bot EXCEPT
                            !.pc = IF st.raised THEN "loop" ELSE "metrics",
                            !.positions = positions,
                            !.cycle.calls =
                                IF opt_signals # <<>>
                                THEN @ \o <<"generate_options_signals",
                                            "execute_options_signals">>
                                ELSE IF run THEN Append(@, "generate_options_signals")
                                ELSE @,
                            !.cycle.orders = @ \o st.orders]
              /\ broker' = [broker EXCEPT
                               !.pending = @ \cup {o.symbol : o \in Range(st.orders)}]
    /\ UNCHANGED <<today, ret, scan, opt>>

\* Step 5 of _trading_loop: the snapshot, the risk metrics, the sleep.
RiskMetrics ==
    /\ bot.pc = "metrics"
    /\ bot' = [bot EXCEPT !.pc = "loop",
                          !.positions = Refreshed(bot.positions, broker.positions),
                          !.cycle.calls = Append(@, "get_risk_metrics")]
    /\ UNCHANGED <<rm, today, ret, tripped_on, scan, opt, broker>>

\* The broker fills a limit order: the symbol becomes a position.
OrderFills ==
    /\ \E s \in broker.pending :
          broker' = [broker EXCEPT !.positions.held = @ \cup {s}, !.pending = @ \ {s}]
    /\ UNCHANGED <<rm, today, ret, tripped_on, scan, opt, bot>>

\* The date changes.  The bot reads the date only in reset_daily_limits, at
\* the head of an iteration, so a change inside an iteration is seen as one
\* before the next.
Midnight ==
    /\ bot.pc \in {"start", "loop"}
    /\ NewDay

NextBot ==
    \/ Start
    \/ MarketClosed
    \/ TradingLoop
    \/ MonitorPositions
    \/ ScanForSignals
    \/ ExecuteStockSignals
    \/ ExecuteOptionsSignals
    \/ RiskMetrics
    \/ OrderFills
    \/ Midnight

SpecBot == InitBot /\ [][NextBot]_vars

\* The place of a call in the cycle's calls, 0 if it was not made.
CallIndex(name) ==
    IF \E i \in DOMAIN bot.cycle.calls : bot.cycle.calls[i] = name
    THEN CHOOSE i \in DOMAIN bot.cycle.calls : bot.cycle.calls[i] = name
    ELSE 0

\* C4: in every trading-loop iteration both risk gates have run, daily loss
\* then drawdown, before scan_for_signals starts, and an iteration in which
\* either gate rejected runs no scan and places no buy order, stock or
\* simulated option.
C4_GatesBeforeScan ==
    /\ bot.pc \in {"scan", "stocks", "options", "metrics"} \/ CallIndex("scan_for_signals") > 0
       \/ bot.cycle.orders # <<>> =>
          /\ bot.cycle.gate = "pass"
          /\ CallIndex("check_daily_loss_limit") > 0
          /\ CallIndex("check_max_drawdown") > CallIndex("check_daily_loss_limit")
    /\ CallIndex("scan_for_signals") > 0 =>
          CallIndex("scan_for_signals") > CallIndex("check_max_drawdown")
    /\ bot.cycle.gate \in {"daily", "drawdown"} =>
          /\ CallIndex("scan_for_signals") = 0
          /\ bot.cycle.orders = <<>>
          /\ bot.pc \in {"loop", "stopped"}

\* An iteration that passed both gates, scanned and placed a stock order and
\* a simulated-option order.
C4_Witness ==
    /\ bot.cycle.gate = "pass"
    /\ CallIndex("scan_for_signals") = 6
    /\ \E i, j \in DOMAIN bot.cycle.orders :
          /\ bot.cycle.orders[i].asset_type = "stock"
          /\ bot.cycle.orders[j].asset_type = "option"

\* An iteration ended by the daily-loss gate, after one that traded.
C4_WitnessRejected ==
    /\ bot.cycle.gate = "daily"
    /\ bot.pc = "loop"
    /\ broker.pending # {}

\* C16: once check_max_drawdown has rejected in an iteration, is_running is
\* false, the run loop has ended, that iteration placed no buy order, and
\* from then on the bot takes no step and no order is placed.
C16_DrawdownStopsTrading ==
    /\ [](rm.max_drawdown_triggered \/ bot.cycle.gate = "drawdown" =>
             /\ bot.cycle.gate = "drawdown"
             /\ bot.pc = "stopped"
             /\ ~bot.is_running
             /\ bot.cycle.orders = <<>>)
    /\ [][bot.pc = "stopped" =>
             /\ bot' = bot
             /\ rm' = rm
             /\ broker'.pending \subseteq broker.pending]_vars

\* The bot stopped by the drawdown gate on the second day, with orders of
\* an earlier iteration at the broker.
C16_Witness ==
    /\ bot.pc = "stopped"
    /\ bot.cycle.gate = "drawdown"
    /\ rm.max_drawdown_triggered
    /\ today = 2
    /\ broker.pending \cup broker.positions.held # {}

(***************************************************************************)
(* One scan of a universe, or one generate_options_signals call            *)
(***************************************************************************)
ScanUniverse == <<"AAPL", "MSFT", "NVDA">>

\* Data whose composite is 29 in a NEUTRAL regime: under the entry score.
Weak ==
    [df |-> Frame(60, 100, <<110, 80>>, 70, 0, <<100, 100>>),
     sent |-> [raises |-> FALSE, score |-> 10],
     pred |-> [raises |-> TRUE, probability |-> 50, model_accuracy |-> 50]]

\* No bars, a fetch that raises, and strong technicals whose sentiment and
\* model lookups both raise.
NoBars == [StrongBull EXCEPT !.df = NoFrame]

BarsFail == [StrongBull EXCEPT !.df = FrameFails]

Blind ==
    [StrongBull EXCEPT !.sent = [raises |-> TRUE, score |-> 0],
                       !.pred = [raises |-> TRUE, probability |-> 50, model_accuracy |-> 50]]

SymbolData == {StrongBull, MediumBull, Bear, Short, Weak, NoBars, BarsFail, Blind}

ScanMarkets ==
    {[regime |-> g, data |-> d] :
        g \in Regimes, d \in [Range(ScanUniverse) -> SymbolData]}

InitSignals ==
    /\ InitRiskManager
    /\ bot = Idle
    /\ broker = Idle
    /\ \/ /\ scan \in {[pc |-> "universe", universe |-> ScanUniverse, market |-> mk] :
                          mk \in ScanMarkets}
          /\ opt = Idle
       \/ /\ scan = Idle
          /\ opt \in {[pc |-> "ready", chain |-> c, stock_signals |-> l,
                        options_budget |-> b] :
                          c \in Chains, l \in StockSignalLists, b \in OptionsBudgets}

\* scan_for_signals(universe); scores keeps each symbol's composite and
\* parts what _analyze_symbol computed for it.
Scan ==
    /\ scan.pc = "universe"
    /\ scan' = [pc |-> "scanned", universe |-> scan.universe, market |-> scan.market,
                scores |-> [s \in Range(scan.universe) |->
                               analyze_symbol(s, scan.market.regime,
                                              scan.market.data[s]).score],
                parts |-> [s \in Range(scan.universe) |->
                              analyze_symbol(s, scan.market.regime, scan.market.data[s])],
                signals |-> scan_for_signals(scan.universe, scan.market)]
    /\ UNCHANGED <<rm, today, ret, tripped_on, opt, bot, broker>>

NextSignals ==
    \/ Scan
    \/ GenerateOptionsSignals

SpecSignals == InitSignals /\ [][NextSignals]_vars

\* The place of a symbol in the scanned universe.
PlaceOf(symbol) == CHOOSE i \in DOMAIN scan.universe : scan.universe[i] = symbol

\* C17: scan_for_signals returns its signals by score, highest first, and
\* signals of equal score in the order of their symbols in the universe;
\* generate_options_signals returns its signals by score, highest first.
C17_SortedByScore ==
    /\ scan.pc = "scanned" =>
          \A i, j \in DOMAIN scan.signals :
              i < j =>
                 /\ scan.signals[i].score >= scan.signals[j].score
                 /\ scan.signals[i].score = scan.signals[j].score =>
                        PlaceOf(scan.signals[i].symbol) < PlaceOf(scan.signals[j].symbol)
    /\ opt.pc = "done" =>
          \A i, j \in DOMAIN opt.signals :
              i < j => opt.signals[i].score >= opt.signals[j].score

\* A scan whose first symbol scores lowest and whose other two tie.
C17_Witness ==
    /\ scan.pc = "scanned"
    /\ Len(scan.signals) = 3
    /\ scan.signals[1].symbol = "MSFT" /\ scan.signals[1].score = 87
    /\ scan.signals[2].symbol = "NVDA" /\ scan.signals[2].score = 87
    /\ scan.signals[3].symbol = "AAPL" /\ scan.signals[3].score = 61

\* The input signals of the generate_options_signals call at or over the
\* entry score.
Qualifying == {i \in DOMAIN opt.stock_signals :
                  opt.stock_signals[i].score >= MIN_ENTRY_SCORE}

\* C18: every signal scan_for_signals returns has a composite score of at
\* least MIN_ENTRY_SCORE and a direction of BULLISH or BEARISH, and a symbol
\* whose composite is under MIN_ENTRY_SCORE is not among them;
\* generate_options_signals issues no lookup and emits no signal for an
\* input signal under MIN_ENTRY_SCORE.
C18_EntryScoreFloor ==
    /\ scan.pc = "scanned" =>
          /\ \A i \in DOMAIN scan.signals :
                 /\ scan.signals[i].score >= MIN_ENTRY_SCORE
                 /\ scan.signals[i].score = scan.scores[scan.signals[i].symbol]
                 /\ scan.signals[i].direction \in {"BULLISH", "BEARISH"}
          /\ \A s \in Range(scan.universe) :
                 scan.scores[s] < MIN_ENTRY_SCORE =>
                     \A i \in DOMAIN scan.signals : scan.signals[i].symbol # s
    /\ opt.pc = "done" =>
          /\ \A i \in DOMAIN opt.signals : opt.signals[i].score >= MIN_ENTRY_SCORE
          /\ Len(opt.signals) <= Cardinality(Qualifying)
          /\ Len(opt.requests) <= 2 * Cardinality(Qualifying)
          /\ \A s \in {"AAPL", "MSFT"} :
                 (\A i \in Qualifying : opt.stock_signals[i].symbol # s) =>
                     /\ \A i \in DOMAIN opt.requests : opt.requests[i].symbol # s
                     /\ \A i \in DOMAIN opt.signals : opt.signals[i].symbol # s

\* A scan that drops a symbol scoring 29 between two that qualify.
C18_Witness ==
    /\ scan.pc = "scanned"
    /\ scan.market.regime = "NEUTRAL"
    /\ scan.scores = [s \in Range(ScanUniverse) |->
                         IF s = "MSFT" THEN 29 ELSE IF s = "AAPL" THEN 61 ELSE 74]
    /\ Len(scan.signals) = 2
    /\ scan.signals[1].symbol = "NVDA"
    /\ scan.signals[2].symbol = "AAPL"

\* A generate_options_signals call whose only MSFT signal scores 55, with
\* every MSFT contract on offer: no lookup and no signal for MSFT.
C18_WitnessOptions ==
    /\ opt.pc = "done"
    /\ Len(opt.stock_signals) = 3
    /\ opt.stock_signals[2].score = 55
    /\ opt.chain["MSFT"] = ChainOf(300, 300, 300)
    /\ Len(opt.requests) = 2
    /\ Len(opt.signals) = 2

\* The frame of a symbol gives an analysis: there are bars, the fetch did
\* not raise, and there are at least 50 rows.
Usable(d) == d.df \notin {NoFrame, FrameFails} /\ d.df.rows >= 50

\* The signals of a sequence for one symbol.
SignalsOf(signals, symbol) == {i \in DOMAIN signals : signals[i].symbol = symbol}

\* C25: a symbol without bars, with fewer than 50 bars or whose fetch raises
\* gets no signal from scan_for_signals, and a stock signal whose options
\* lookup raises or finds nothing gets none from generate_options_signals;
\* every other symbol is processed as if nothing had failed, and the call
\* returns its list.  A sentiment or model lookup that raises leaves the
\* symbol in the scan with the score 12 and the direction NEUTRAL for that
\* scorer.
C25_FailuresSkipOneSymbol ==
    /\ scan.pc = "scanned" =>
          \A s \in Range(scan.universe) :
              LET d == scan.market.data[s]
                  part == scan.parts[s]
                  emitted == SignalsOf(scan.signals, s)
              IN  IF ~Usable(d)
                  THEN emitted = {} /\ part.score = None
                  ELSE /\ part.score # None
                       /\ d.sent.raises =>
                              part.sent.score = 12 /\ part.sent.direction = "NEUTRAL"
                       /\ d.pred.raises =>
                              part.ml.score = 12 /\ part.ml.direction = "NEUTRAL"
                       /\ part.score = Max(0, Min(100, part.tech.score + part.sent.score
                                                       + part.ml.score + part.regime_adj))
                       /\ Cardinality(emitted) = IF part.score >= MIN_ENTRY_SCORE THEN 1 ELSE 0
    /\ opt.pc = "done" =>
          \A s \in {"AAPL", "MSFT"} :
              Cardinality(SignalsOf(opt.signals, s))
                  = Cardinality({i \in SignalsOf(opt.stock_signals, s) :
                                    TableYield(opt.stock_signals[i]) # "none"})

\* A scan whose first symbol's fetch raises, whose second has neither
\* sentiment nor model, and whose third has no bars: one signal, for the
\* second.
C25_Witness ==
    /\ scan.pc = "scanned"
    /\ scan.market.data["AAPL"] = BarsFail
    /\ scan.market.data["MSFT"] = Blind
    /\ scan.market.data["NVDA"] = NoBars
    /\ Len(scan.signals) = 1
    /\ scan.signals[1].symbol = "MSFT"
    /\ scan.parts["MSFT"].sent.score = 12 /\ scan.parts["MSFT"].ml.score = 12

\* A call whose first signal's spread lookup raises, with a call on offer,
\* and whose second signal, for the other symbol, gets its put.
C25_WitnessOptions ==
    /\ opt.pc = "done"
    /\ Len(opt.stock_signals) = 2
    /\ opt.stock_signals[1].direction = "BULLISH" /\ opt.stock_signals[1].score = 70
    /\ opt.chain["AAPL"] = ChainOf(300, 300, Fails)
    /\ opt.stock_signals[2].direction = "BEARISH"
    /\ opt.chain["MSFT"] = ChainOf(300, 300, 300)
    /\ Len(opt.signals) = 1
    /\ opt.signals[1].symbol = "MSFT"

\* The RiskState _execute_stock_signals leaves when it is abandoned after
\* the first k of its signals.
StocksAbandonedAt(k, accepted) ==
    LET acct == bot.account_info
        stock_budget == (acct.portfolio_value * STOCK_ALLOCATION) \div 100
        stock_room == Max(0, stock_budget - Get(acct, "long_market_value", 0))
        positions == Refreshed(bot.positions, broker.positions)
        bullish == Take(Directed(bot.signals, "BULLISH"), 5)
    IN  execute_stock_signals(SubSeq(bullish, 1, Min(k, Len(bullish))),
                              Exec(stock_room, get_position_counts(positions), rm),
                              acct, positions, accepted).rm

\* C20: after the gate phase of an iteration no step changes a field of
\* the RiskState: not should_exit_position in the monitoring, not
\* scan_for_signals, not generate_options_signals, not the position-count,
\* position-size and buying-power checks of the two execution loops (nor
\* validate_trade, whose gates see the equity the gate phase saw), not
\* get_risk_metrics; and the stock loop abandoned after any number of its
\* signals leaves the RiskState as the gate phase left it.
C20_RiskStateFrame ==
    /\ [][bot.pc \in {"monitor", "scan", "stocks", "options", "metrics", "stopped"} =>
             rm' = rm]_vars
    /\ [](bot.pc = "stocks" =>
             \A k \in 0..Len(bot.signals), accepted \in SUBSET BotSymbols :
                 StocksAbandonedAt(k, accepted) = rm)

\* An iteration on a day that is up, past its stock orders.
C20_Witness ==
    /\ bot.pc = "options"
    /\ bot.cycle.gate = "pass"
    /\ bot.cycle.orders # <<>>
    /\ rm.daily_start_equity = 96500
    /\ rm.peak_equity = 100000
    /\ bot.account_info.portfolio_value = 100000


\* C30: in one cycle the positions the portfolio lists and the buy orders
\* _execute_stock_signals and _execute_options_signals have placed number at
\* most MAX_TOTAL_POSITIONS together, and no symbol receives more than one
\* buy order.
C30_OneBuyPerSymbol ==
    LET orders == bot.cycle.orders
    IN  bot.pc \in {"options", "metrics", "loop"} =>
            /\ NumPositions(bot.positions) + Len(orders) <= MAX_TOTAL_POSITIONS
            /\ \A i, j \in DOMAIN orders :
                   i # j => orders[i].symbol # orders[j].symbol

====
